---- MODULE Spec2Model ----
(***************************************************************************)
(* A model of go-battgo: the framing/scrambling PHY (phy/phy.go), the bus  *)
(* controller (controller/controller.go, controller/detect.go,             *)
(* controller/device.go), its address allocator and the battery driver    *)
(* (controller/functions/battery/battery.go).                              *)
(*                                                                         *)
(* The module holds several specifications over one set of variables:      *)
(*   SpecPhy    the PHY transmitter looped back into its receive state     *)
(*              machine, with garbage bytes injected on the line;          *)
(*   SpecCmd    concurrent callers of commandExecTimeout, the command slot *)
(*              and the PHY delivering packets to rxHandlePacket;          *)
(*   SpecCtl    the controller's polling loop: enumeration, the device     *)
(*              table, the address bitmap, Access and Disconnected;        *)
(*   SpecAlloc  the address allocator under allocations and frees;         *)
(*   SpecDev    an external caller of a BusDevice handle beside the        *)
(*              polling loop;                                              *)
(*   SpecRun    the polling loop and the port being closed, with the       *)
(*              goroutine of Run scheduled fairly;                         *)
(*   SpecBat    the battery driver, its update channel and the consumer;   *)
(*   SpecFeed   the receive state machine fed any bytes, one per read;     *)
(*   SpecScr    scramble applied again and again to one payload;           *)
(*   SpecPoll   the battery driver called as the polling loop calls it;    *)
(*   SpecEarly  SpecCmd with a note of the packets the slot takes before   *)
(*              the holder's frame is written.                             *)
(* Each specification leaves the variables of the other parts unchanged.   *)
(***************************************************************************)
EXTENDS Integers, Sequences, FiniteSets, TLC

VARIABLES
    \* ---- PHY (phy/phy.go) ----
    rx,                  \* locals of PHY.Run: rxState, rxLen, addrSource, addrDest, sum, payload, isEscaped
    wire,                \* bytes written to the port and not yet read by PHY.Run
    txSeed,              \* PHY.txSeed
    TXDisableScrambler,  \* PHY.TXDisableScrambler
    rxLog,               \* history: the RXHandlePacket invocations, in order
    rxPresence,          \* history: RXHandlePresense invocations during the last read
    txLog,               \* history: the TXSendPacket calls, in order
    garbage,             \* history: number of garbage bytes injected so far
    lastWrite,           \* history: who wrote to the line last ("none", "tx", "garbage")
    \* ---- the command slot (controller.go 74-130) ----
    cmdPc,               \* per caller: where it stands in commandExecTimeout
    cmdCtx,              \* per caller: ctx.Err() != nil (the timeout has fired)
    cmdArgs,             \* per caller: addrDest, addrResponse
    cmdLocal,            \* per caller: resp and err of commandExec
    cmdRet,              \* per caller: what commandExecTimeout returned
    slotHolder,          \* the caller that took the slot from cmdSlotSet, or NoCaller
    slotActive,          \* the slot is activated
    slotPosted,          \* a post is pending on the slot
    slotData,            \* cmdData of the slot: addrResponse, response
    txWriters,           \* callers inside TXSendPacket
    cmdCalls,            \* history: commandExecTimeout calls begun
    cmdHist,             \* per caller, history of its current call
    \* ---- the controller (controller.go, detect.go, device.go) ----
    devices,             \* Controller.devices: the BusDevice records, each with its map key
    addressUsed,         \* Controller.addressUsed, each word as the set of its one bits
    devicesNumber,       \* Controller.devicesNumber
    devicesMax,          \* Controller.devicesMax
    scanCount,           \* Controller.scanCount
    scanDue,             \* time.Now().After(Controller.scanTime)
    ctlPc,               \* where Run stands: new, detect, ping, assign, poll, returned
    ctlCur,              \* dev of detectAndConfigure: the id of the record it points to
    todo,                \* keys the range over c.devices has yet to visit
    nextId,              \* history: the id the next BusDevice record gets
    ctlHist,             \* history per record: age of its close, Disconnected calls, address
    lastEnum,            \* history: the PING-ALL answer detectAndConfigure last worked on
    lostSerials,         \* history: serials whose record Access has closed
    \* ---- the allocator harness ----
    allocHeld,           \* history: addresses handed out and not freed
    allocLast,           \* history: the last allocator call
    allocFrees,          \* history: addresses freed so far
    \* ---- an external caller of a BusDevice handle (device.go 53-70) ----
    devCallPc,           \* where the caller stands: idle, checked, done
    devCall,             \* history of its current call
    devCalls,            \* history: calls begun
    \* ---- the port (phy.go 14, 177-179) ----
    portClosed,          \* Port.Close has been called
    closeCause,          \* history: what closed the port
    \* ---- the battery driver (controller/functions/battery/battery.go) ----
    readIndex,           \* DeviceBattery.readIndex
    batCache,            \* currentState, cycleInfo, userSettings, serial, factoryInfo
    batData,             \* DeviceBattery.Data, the typed snapshot
    updateChan,          \* number of notifications pending on updateChan
    batPc,               \* where the driver stands: idle, signal, panicked
    batCall,             \* history of the current or last call of the driver
    batRequests,         \* history: the requests handed to CommandExecTimeout, in order
    batAccesses,         \* history: Access calls begun
    \* ---- the receiver fed byte by byte (phy.go 60-131) ----
    fed,                 \* history: bytes Port.Read has returned
    fedFrames,           \* history: the frames whose last byte has arrived
    \* ---- scramble applied over and over (phy.go 35-44) ----
    scrSeed,             \* the seed argument
    scrIn,               \* the bytes first given to scramble
    scrOut,              \* what the last call wrote to out
    scrCalls,            \* history: calls made
    \* ---- the command slot watched for early packets ----
    capturedEarly        \* history, per caller: the payload the slot last took for it
                         \* came before it called TXSendPacket

phyVars == <<rx, wire, txSeed, TXDisableScrambler, rxLog, rxPresence, txLog, garbage, lastWrite>>

cmdVars == <<cmdPc, cmdCtx, cmdArgs, cmdLocal, cmdRet, slotHolder, slotActive,
             slotPosted, slotData, txWriters, cmdCalls, cmdHist>>

ctlRest == <<devices, devicesNumber, devicesMax, scanCount, scanDue, ctlPc, ctlCur, todo,
             nextId, ctlHist, lastEnum, lostSerials>>

ctlVars == <<addressUsed, ctlRest>>

allocVars == <<allocHeld, allocLast, allocFrees>>

devVars == <<devCallPc, devCall, devCalls>>

\* The parts added around the four above.
runVars == <<portClosed, closeCause>>

batVars == <<readIndex, batCache, batData, updateChan, batPc, batCall, batRequests,
            batAccesses>>

feedVars == <<fed, fedFrames>>

scrVars == <<scrSeed, scrIn, scrOut, scrCalls>>

earlyVars == <<capturedEarly>>

restVars == <<devVars, runVars, batVars, feedVars, scrVars, earlyVars>>

vars == <<phyVars, cmdVars, ctlVars, allocVars, restVars>>

\* What each specification leaves alone.
notPhy == <<cmdVars, ctlVars, allocVars, restVars>>
notCmd == <<ctlVars, allocVars, restVars>>
notCtl == <<phyVars, cmdVars, allocVars, restVars>>
notAlloc == <<phyVars, cmdVars, ctlRest, restVars>>
notDev == <<phyVars, cmdVars, allocVars, runVars, batVars, feedVars, scrVars, earlyVars>>
notBat == <<phyVars, cmdVars, ctlVars, allocVars, devVars, runVars, feedVars, scrVars,
           earlyVars>>
notFeed == <<wire, txSeed, TXDisableScrambler, txLog, garbage, lastWrite, cmdVars, ctlVars,
             allocVars, devVars, runVars, batVars, scrVars, earlyVars>>
notScr == <<phyVars, cmdVars, ctlVars, allocVars, devVars, runVars, batVars, feedVars,
           earlyVars>>
notEarly == <<ctlVars, allocVars, devVars, runVars, batVars, feedVars, scrVars>>

----------------------------------------------------------------------------
(* Bytes and 16-bit sums *)

Byte == 0..255

Nil == <<>>            \* a nil slice

EscapeByte == 170      \* 0xAA: frame start and stuffing byte

ControllerAddress == 1 \* the controller's own bus address

RECURSIVE XorBits(_, _, _)
XorBits(a, b, n) ==
    IF n = 0 THEN 0
    ELSE (((a % 2) + (b % 2)) % 2) + 2 * XorBits(a \div 2, b \div 2, n - 1)

\* Exclusive or of two 4-bit values, tabulated.
XorNibble == [a \in 0..15 |-> [b \in 0..15 |-> XorBits(a, b, 4)]]

\* The ^ operator of Go on two uint8 values.
Xor8(a, b) == XorNibble[a % 16][b % 16] + 16 * XorNibble[a \div 16][b \div 16]

\* The sum of s[lo..hi], by halves (the recursion stays shallow on long frames).
RECURSIVE SumRange(_, _, _)
SumRange(s, lo, hi) ==
    IF lo > hi THEN 0
    ELSE IF lo = hi THEN s[lo]
    ELSE LET mid == (lo + hi) \div 2
         IN  SumRange(s, lo, mid) + SumRange(s, mid + 1, hi)

SumBytes(s) == SumRange(s, 1, Len(s))

\* uint16 addition wraps.
Add16(a, b) == (a + b) % 65536

----------------------------------------------------------------------------
(* scramble: phy.go 35-44 *)

ScrambleSeedOffset == 136

\* A mutant of ScrambleNextXor: the seed is added and not xored in.
ScrambleNextXorAdded(xor, seed) == (xor + seed) % 256

\* 41-42: the next value of xor.
ScrambleNextXor(xor, seed) == Xor8((xor + seed) % 256, seed)

\* The values xor takes in n rounds of the loop, the first being x.
RECURSIVE KeyStream(_, _, _)
KeyStream(x, seed, n) ==
    IF n = 0 \/ x < 0 THEN <<>>
    ELSE IF n = 1 THEN <<x>>
    ELSE LET h == n \div 2
             a == KeyStream(x, seed, h)
         IN  a \o KeyStream(ScrambleNextXor(a[h], seed), seed, n - h)

ScrambleFrom(xor, seed, in) ==
    LET ks == KeyStream(xor, seed, Len(in))
    IN  [i \in 1..Len(in) |-> Xor8(in[i], ks[i])]

scramble(seed, in) == ScrambleFrom((seed + ScrambleSeedOffset) % 256, seed, in)

----------------------------------------------------------------------------
(* TXSendPacket: phy.go 136-174 *)

\* A mutant of addByte: the byte is never doubled.
AddByteNoStuffing(m) == <<m>>

\* addByte (139-146): the bytes one call appends to txBuf.
AddByte(m) == IF m = EscapeByte THEN <<EscapeByte, m>> ELSE <<m>>

\* addByte on each of s[lo..hi] in turn.
RECURSIVE AddRange(_, _, _)
AddRange(s, lo, hi) ==
    IF lo > hi THEN <<>>
    ELSE IF lo = hi THEN AddByte(s[lo])
    ELSE LET mid == (lo + hi) \div 2
         IN  AddRange(s, lo, mid) \o AddRange(s, mid + 1, hi)

AddBytes(s) == AddRange(s, 1, Len(s))

UnscrambledSeed == 120

\* The seed byte and the payload bytes as they go into the frame (153-162).
TXSeedByte(seed, disable) == IF disable THEN UnscrambledSeed ELSE seed

TXPayloadScrambled(seed, disable, pl) == IF disable THEN pl ELSE scramble(seed, pl)

\* The unstuffed bytes SRC DST LEN SEED P.. that the checksum covers.
TXBody(src, dst, pl, seed, disable) ==
    <<src, dst, (Len(pl) + 1) % 256, TXSeedByte(seed, disable)>>
    \o TXPayloadScrambled(seed, disable, pl)

\* The bytes handed to Port.Write (148-172).
TXFrame(src, dst, pl, seed, disable) ==
    LET body     == TXBody(src, dst, pl, seed, disable)
        finalSum == SumBytes(body) % 65536
    IN  <<EscapeByte>> \o AddBytes(body \o <<finalSum % 256, finalSum \div 256>>)

----------------------------------------------------------------------------
(* The receive state machine: the body of the byte loop of PHY.Run,        *)
(* phy.go 67-131.                                                          *)

RxInit == [rxState |-> 0, rxLen |-> 0, addrSource |-> 0, addrDest |-> 0,
           sum |-> 0, payload |-> <<>>, isEscaped |-> FALSE]

\* A mutant of RxResyncSum: a frame start does not clear the checksum.
RxResyncSumKept(s, m) == s.sum

\* A mutant of RxFrameStart: the second 0xAA of a pair marks a frame start too.
RxFrameStartAny(s, m) == s.isEscaped

\* 73-78: an escaped byte other than 0xAA marks a frame start.
RxFrameStart(s, m) == s.isEscaped /\ m # EscapeByte

RxResyncState(s, m) == IF RxFrameStart(s, m) THEN 1 ELSE s.rxState

RxResyncSum(s, m) == IF RxFrameStart(s, m) THEN 0 ELSE s.sum

NoPacket == [src |-> -1, dst |-> -1, payload |-> <<>>]

\* A mutant of ChecksumValid: only the low bytes are compared.
ChecksumValidLow(csum, sum) == csum % 256 = sum % 256

\* 113: the two trailing bytes against the sum.
ChecksumValid(csum, sum) == csum = sum

\* 106-127: the last byte of the body has arrived.
RxBodyDone(s, pl, sum0) ==
    LET csumEnd == Len(pl) - 2
        sum1    == Add16(sum0, SumBytes(SubSeq(pl, 1, csumEnd)))
        csum    == pl[csumEnd + 1] + 256 * pl[csumEnd + 2]
        valid   == ChecksumValid(csum, sum1)
        pl1     == IF valid
                   THEN <<pl[1]>> \o scramble(pl[1], SubSeq(pl, 2, Len(pl)))
                   ELSE pl
    IN  [s   |-> [s EXCEPT !.isEscaped = FALSE, !.sum = sum1, !.payload = pl1,
                           !.rxState = 0],
         ev  |-> IF valid THEN "packet" ELSE "none",
         pkt |-> IF valid
                 THEN [src |-> s.addrSource, dst |-> s.addrDest,
                       payload |-> SubSeq(pl1, 2, csumEnd)]
                 ELSE NoPacket]

\* 81-130: the switch on rxState, for a byte that is dispatched.
RxDispatch(s, m) ==
    LET st   == RxResyncState(s, m)
        sum0 == RxResyncSum(s, m)
        t    == [s EXCEPT !.isEscaped = FALSE, !.sum = sum0, !.rxState = st]
    IN  CASE st = 0 -> [s |-> t, ev |-> "presence", pkt |-> NoPacket]
          [] st = 1 -> [s |-> [t EXCEPT !.addrSource = m, !.sum = Add16(sum0, m),
                                        !.rxState = 2],
                        ev |-> "none", pkt |-> NoPacket]
          [] st = 2 -> [s |-> [t EXCEPT !.addrDest = m, !.sum = Add16(sum0, m),
                                        !.rxState = 3],
                        ev |-> "none", pkt |-> NoPacket]
          [] st = 3 -> IF m > 0
                       THEN [s |-> [t EXCEPT !.payload = <<>>, !.rxLen = m + 2,
                                             !.sum = Add16(sum0, m), !.rxState = 4],
                             ev |-> "none", pkt |-> NoPacket]
                       ELSE [s |-> [t EXCEPT !.rxState = 0],
                             ev |-> "none", pkt |-> NoPacket]
          [] st = 4 -> LET pl == Append(s.payload, m)
                       IN  IF Len(pl) = s.rxLen
                           THEN RxBodyDone(t, pl, sum0)
                           ELSE [s |-> [t EXCEPT !.payload = pl],
                                 ev |-> "none", pkt |-> NoPacket]
          [] OTHER  -> [s |-> [t EXCEPT !.rxState = 0], ev |-> "none", pkt |-> NoPacket]

\* 67-131: one received byte m.
RxStep(s, m) ==
    IF ~s.isEscaped /\ m = EscapeByte
    THEN [s |-> [s EXCEPT !.isEscaped = TRUE], ev |-> "none", pkt |-> NoPacket]
    ELSE RxDispatch(s, m)

\* 67-131 over the bytes msg[lo..hi] of one read, by halves; acc carries the
\* locals of Run and what the callbacks were given.
RECURSIVE RxFeed(_, _, _, _)
RxFeed(acc, msg, lo, hi) ==
    IF lo > hi \/ acc.presence < 0 THEN acc      \* (acc is evaluated before the halves)
    ELSE IF lo = hi
    THEN LET r == RxStep(acc.s, msg[lo])
         IN  [s        |-> r.s,
              log      |-> IF r.ev = "packet" THEN Append(acc.log, r.pkt) ELSE acc.log,
              presence |-> IF r.ev = "presence" THEN acc.presence + 1 ELSE acc.presence]
    ELSE LET mid == (lo + hi) \div 2
         IN  RxFeed(RxFeed(acc, msg, lo, mid), msg, mid + 1, hi)

----------------------------------------------------------------------------
(* The command slot: controller.go 74-130.  cmdSlotSet is a slot set of    *)
(* one slot (controller.go 46): Get takes the slot when it is free, or     *)
(* gives up when the context is done; Put gives it back; Activate and      *)
(* Deactivate switch the slot on and off for IterateActive, and Activate   *)
(* drops a post left pending; PostWithoutLock leaves a post pending and    *)
(* WaitCtx returns when a post is pending or the context is done.          *)

NumCallers == 2        \* concurrent callers (the polling loop is one of them)
MaxCalls == 2          \* commandExecTimeout calls per behaviour

Callers == 1..NumCallers
NoCaller == 0

\* (addrDest, addrResponse) as the callers pass them: PING-ALL (detect.go 46)
\* and a command to the device at address 2 (device.go 58 and 69).
CmdArgSet == {[addrDest |-> 0, addrResponse |-> 0],
              [addrDest |-> 2, addrResponse |-> 2]}

\* The payload that tells a packet from src to dst from every other packet.
PayloadOf(src, dst) == <<10 * src + dst>>

\* Valid packets the PHY hands to rxHandlePacket: answers to the controller from
\* an unassigned device (0), from the device at address 2 and from one at 3, a
\* packet from 2 to another destination, and the echoes of the controller's own
\* frames.
PacketRoutes == {<<0, 1>>, <<2, 1>>, <<3, 1>>, <<2, 0>>, <<1, 0>>, <<1, 2>>}

Packets == {[src |-> r[1], dst |-> r[2], payload |-> PayloadOf(r[1], r[2])] : r \in PacketRoutes}

NoHist == [writeFailed |-> FALSE, matched |-> FALSE, outcome |-> "none"]

CmdInit ==
    /\ cmdPc = [p \in Callers |-> "idle"]
    /\ cmdCtx = [p \in Callers |-> FALSE]
    /\ cmdArgs = [p \in Callers |-> [addrDest |-> 0, addrResponse |-> 0]]
    /\ cmdLocal = [p \in Callers |-> [resp |-> Nil, err |-> "nil"]]
    /\ cmdRet = [p \in Callers |-> [resp |-> Nil, err |-> "nil"]]
    /\ slotHolder = NoCaller
    /\ slotActive = FALSE
    /\ slotPosted = FALSE
    /\ slotData = [addrResponse |-> 0, response |-> Nil]
    /\ txWriters = {}
    /\ cmdCalls = 0
    /\ cmdHist = [p \in Callers |-> NoHist]

\* The port is not looped back here: a fresh PHY as NewSerialSimple makes it.
PhyFresh ==
    /\ rx = RxInit
    /\ wire = <<>>
    /\ txSeed = 0
    /\ TXDisableScrambler = FALSE
    /\ rxLog = <<>>
    /\ rxPresence = 0
    /\ txLog = <<>>
    /\ garbage = 0
    /\ lastWrite = "none"

\* 117-124: commandExecTimeout is called; the context starts its timer.
CommandExecTimeout(p, a) ==
    /\ cmdPc[p] \in {"idle", "done"}
    /\ cmdCalls < MaxCalls
    /\ cmdCalls' = cmdCalls + 1
    /\ cmdPc' = [cmdPc EXCEPT ![p] = "get"]
    /\ cmdCtx' = [cmdCtx EXCEPT ![p] = FALSE]
    /\ cmdArgs' = [cmdArgs EXCEPT ![p] = a]
    /\ cmdLocal' = [cmdLocal EXCEPT ![p] = [resp |-> Nil, err |-> "nil"]]
    /\ cmdHist' = [cmdHist EXCEPT ![p] = NoHist]
    /\ UNCHANGED <<cmdRet, slotHolder, slotActive, slotPosted, slotData, txWriters, phyVars>>

\* The timer of the caller's context fires (121).
CtxTimeout(p) ==
    /\ cmdPc[p] \notin {"idle", "done"}
    /\ ~cmdCtx[p]
    /\ cmdCtx' = [cmdCtx EXCEPT ![p] = TRUE]
    /\ UNCHANGED <<cmdPc, cmdArgs, cmdLocal, cmdRet, slotHolder, slotActive, slotPosted,
                   slotData, txWriters, cmdCalls, cmdHist, phyVars>>

\* A mutant of SlotAvailable: Get hands the slot out while it is taken.
SlotAvailableAlways == TRUE

\* cmdSlotSet.Get can hand out the slot (90).
SlotAvailable == slotHolder = NoCaller

\* 90: Get returns the slot.
SlotGet(p) ==
    /\ cmdPc[p] = "get"
    /\ SlotAvailable
    /\ slotHolder' = p
    /\ cmdPc' = [cmdPc EXCEPT ![p] = "held"]
    /\ UNCHANGED <<cmdCtx, cmdArgs, cmdLocal, cmdRet, slotActive, slotPosted, slotData,
                   txWriters, cmdCalls, cmdHist, phyVars>>

\* 90-93: Get gives up because the context is done; commandExec returns its error.
SlotGetCancelled(p) ==
    /\ cmdPc[p] = "get"
    /\ cmdCtx[p]
    /\ cmdLocal' = [cmdLocal EXCEPT ![p] = [resp |-> Nil, err |-> "ctx"]]
    /\ cmdHist' = [cmdHist EXCEPT ![p].outcome = "timeout"]
    /\ cmdPc' = [cmdPc EXCEPT ![p] = "check"]
    /\ UNCHANGED <<cmdCtx, cmdArgs, cmdRet, slotHolder, slotActive, slotPosted, slotData,
                   txWriters, cmdCalls, phyVars>>

\* 97-101: publish the expected address and the response buffer, activate.
SlotPublish(p) ==
    /\ cmdPc[p] = "held"
    /\ slotData' = [addrResponse |-> cmdArgs[p].addrResponse, response |-> Nil]
    /\ slotActive' = TRUE
    /\ slotPosted' = FALSE
    /\ cmdPc' = [cmdPc EXCEPT ![p] = "send"]
    /\ UNCHANGED <<cmdCtx, cmdArgs, cmdLocal, cmdRet, slotHolder, txWriters, cmdCalls,
                   cmdHist, phyVars>>

\* 102: TXSendPacket(1, addrDest, payload) builds the frame and starts the write.
CmdSendBegin(p) ==
    /\ cmdPc[p] = "send"
    /\ txWriters' = txWriters \cup {p}
    /\ txSeed' = IF TXDisableScrambler THEN txSeed ELSE (txSeed + 1) % 256
    /\ cmdPc' = [cmdPc EXCEPT ![p] = "write"]
    /\ UNCHANGED <<cmdCtx, cmdArgs, cmdLocal, cmdRet, slotHolder, slotActive, slotPosted,
                   slotData, cmdCalls, cmdHist>>
    /\ UNCHANGED <<rx, wire, TXDisableScrambler, rxLog, rxPresence, txLog, garbage, lastWrite>>

\* 102-105: Port.Write returns, with or without an error.
CmdSendEnd(p, failed) ==
    /\ cmdPc[p] = "write"
    /\ txWriters' = txWriters \ {p}
    /\ IF failed
       THEN /\ cmdLocal' = [cmdLocal EXCEPT ![p] = [resp |-> Nil, err |-> "write"]]
            /\ cmdHist' = [cmdHist EXCEPT ![p].writeFailed = TRUE,
                                          ![p].outcome = "writeerror"]
            /\ cmdPc' = [cmdPc EXCEPT ![p] = "release"]
       ELSE /\ cmdPc' = [cmdPc EXCEPT ![p] = "wait"]
            /\ UNCHANGED <<cmdLocal, cmdHist>>
    /\ UNCHANGED <<cmdCtx, cmdArgs, cmdRet, slotHolder, slotActive, slotPosted, slotData,
                   cmdCalls, phyVars>>

\* 107: WaitCtx returns because a post is pending.
CmdWaitPosted(p) ==
    /\ cmdPc[p] = "wait"
    /\ slotPosted
    /\ slotPosted' = FALSE
    /\ cmdPc' = [cmdPc EXCEPT ![p] = "woken"]
    /\ UNCHANGED <<cmdCtx, cmdArgs, cmdLocal, cmdRet, slotHolder, slotActive, slotData,
                   txWriters, cmdCalls, cmdHist, phyVars>>

\* 107-110: WaitCtx returns because the context is done.
CmdWaitCancelled(p) ==
    /\ cmdPc[p] = "wait"
    /\ cmdCtx[p]
    /\ cmdLocal' = [cmdLocal EXCEPT ![p] = [resp |-> Nil, err |-> "ctx"]]
    /\ cmdHist' = [cmdHist EXCEPT ![p].outcome = "timeout"]
    /\ cmdPc' = [cmdPc EXCEPT ![p] = "release"]
    /\ UNCHANGED <<cmdCtx, cmdArgs, cmdRet, slotHolder, slotActive, slotPosted, slotData,
                   txWriters, cmdCalls, phyVars>>

\* 112-114: deactivate and take the captured response.
CmdTakeResponse(p) ==
    /\ cmdPc[p] = "woken"
    /\ slotActive' = FALSE
    /\ cmdLocal' = [cmdLocal EXCEPT ![p] = [resp |-> slotData.response, err |-> "nil"]]
    /\ cmdHist' = [cmdHist EXCEPT ![p].outcome = "response"]
    /\ cmdPc' = [cmdPc EXCEPT ![p] = "release"]
    /\ UNCHANGED <<cmdCtx, cmdArgs, cmdRet, slotHolder, slotPosted, slotData, txWriters,
                   cmdCalls, phyVars>>

\* 94-95, deferred: Deactivate, then Put.
SlotPut(p) ==
    /\ cmdPc[p] = "release"
    /\ slotActive' = FALSE
    /\ slotHolder' = NoCaller
    /\ cmdPc' = [cmdPc EXCEPT ![p] = "check"]
    /\ UNCHANGED <<cmdCtx, cmdArgs, cmdLocal, cmdRet, slotPosted, slotData, txWriters,
                   cmdCalls, cmdHist, phyVars>>

\* 122, 125-129: a done context turns whatever commandExec returned into
\* (nil, nil); the deferred cancel ends the context, and the locals are gone.
CmdReturn(p) ==
    /\ cmdPc[p] = "check"
    /\ cmdRet' = [cmdRet EXCEPT ![p] = IF cmdCtx[p]
                                       THEN [resp |-> Nil, err |-> "nil"]
                                       ELSE cmdLocal[p]]
    /\ cmdCtx' = [cmdCtx EXCEPT ![p] = TRUE]
    /\ cmdLocal' = [cmdLocal EXCEPT ![p] = [resp |-> Nil, err |-> "nil"]]
    /\ cmdPc' = [cmdPc EXCEPT ![p] = "done"]
    /\ UNCHANGED <<cmdArgs, slotHolder, slotActive, slotPosted, slotData,
                   txWriters, cmdCalls, cmdHist, phyVars>>

\* A mutant of RxForController: packets to any destination are taken.
RxForControllerAny(pkt) == TRUE

\* 75: the packet is addressed to the controller.
RxForController(pkt) == pkt.dst = ControllerAddress

\* 79-81: the slot IterateActive visits expects this packet's source.
RxMatches(pkt) ==
    RxForController(pkt) /\ slotActive /\ slotData.addrResponse = pkt.src

\* rxHandlePacket (74-87), called by PHY.Run with a valid packet.
rxHandlePacket(pkt) ==
    /\ IF RxMatches(pkt)
       THEN /\ slotData' = [slotData EXCEPT !.response = pkt.payload]
            /\ slotPosted' = TRUE
            /\ cmdHist' = IF slotHolder \in Callers
                          THEN [cmdHist EXCEPT ![slotHolder].matched = TRUE]
                          ELSE cmdHist
       ELSE UNCHANGED <<slotData, slotPosted, cmdHist>>
    /\ UNCHANGED <<cmdPc, cmdCtx, cmdArgs, cmdLocal, cmdRet, slotHolder, slotActive,
                   txWriters, cmdCalls, phyVars>>

CmdNext ==
    \/ \E p \in Callers, a \in CmdArgSet : CommandExecTimeout(p, a) /\ UNCHANGED notCmd
    \/ \E p \in Callers : CtxTimeout(p) /\ UNCHANGED notCmd
    \/ \E p \in Callers : SlotGet(p) /\ UNCHANGED notCmd
    \/ \E p \in Callers : SlotGetCancelled(p) /\ UNCHANGED notCmd
    \/ \E p \in Callers : SlotPublish(p) /\ UNCHANGED notCmd
    \/ \E p \in Callers : CmdSendBegin(p) /\ UNCHANGED notCmd
    \/ \E p \in Callers, failed \in BOOLEAN : CmdSendEnd(p, failed) /\ UNCHANGED notCmd
    \/ \E p \in Callers : CmdWaitPosted(p) /\ UNCHANGED notCmd
    \/ \E p \in Callers : CmdWaitCancelled(p) /\ UNCHANGED notCmd
    \/ \E p \in Callers : CmdTakeResponse(p) /\ UNCHANGED notCmd
    \/ \E p \in Callers : SlotPut(p) /\ UNCHANGED notCmd
    \/ \E p \in Callers : CmdReturn(p) /\ UNCHANGED notCmd
    \/ \E pkt \in Packets : rxHandlePacket(pkt) /\ UNCHANGED notCmd


\* The callers, the slot and the PHY as in CmdNext, with a note taken, each
\* time rxHandlePacket puts a payload into the slot, of whether the holder
\* of the slot had yet to call TXSendPacket (controller.go 101-102: the slot
\* is activated before the frame is built and written).
EarlyInit == capturedEarly = [p \in Callers |-> FALSE]

rxHandlePacketNoted(pkt) ==
    /\ rxHandlePacket(pkt)
    /\ capturedEarly' = IF RxMatches(pkt) /\ slotHolder \in Callers
                        THEN [capturedEarly EXCEPT ![slotHolder] = cmdPc[slotHolder] = "send"]
                        ELSE capturedEarly

EarlyNext ==
    \/ \E p \in Callers, a \in CmdArgSet : CommandExecTimeout(p, a) /\ UNCHANGED notCmd
    \/ \E p \in Callers : CtxTimeout(p) /\ UNCHANGED notCmd
    \/ \E p \in Callers : SlotGet(p) /\ UNCHANGED notCmd
    \/ \E p \in Callers : SlotGetCancelled(p) /\ UNCHANGED notCmd
    \/ \E p \in Callers : SlotPublish(p) /\ UNCHANGED notCmd
    \/ \E p \in Callers : CmdSendBegin(p) /\ UNCHANGED notCmd
    \/ \E p \in Callers, failed \in BOOLEAN : CmdSendEnd(p, failed) /\ UNCHANGED notCmd
    \/ \E p \in Callers : CmdWaitPosted(p) /\ UNCHANGED notCmd
    \/ \E p \in Callers : CmdWaitCancelled(p) /\ UNCHANGED notCmd
    \/ \E p \in Callers : CmdTakeResponse(p) /\ UNCHANGED notCmd
    \/ \E p \in Callers : SlotPut(p) /\ UNCHANGED notCmd
    \/ \E p \in Callers : CmdReturn(p) /\ UNCHANGED notCmd
    \/ \E pkt \in Packets : rxHandlePacketNoted(pkt) /\ UNCHANGED notEarly

----------------------------------------------------------------------------
(* The controller's address bitmap, device table and polling loop:         *)
(* controller.go 41-67 and 132-185, detect.go 8-87, device.go 27-49.       *)
(* The two commands of detectAndConfigure and the drivers' Access and      *)
(* Disconnected are calls into the environment, which chooses what they    *)
(* return: commandExecTimeout gives (response, nil), (nil, nil) or         *)
(* (nil, error).                                                           *)

MaxRecords == 3            \* BusDevice records created per behaviour

AddressScanLimit == 254    \* addressFindFree scans 0..253
AddressWordBits == 64      \* bits of one word of addressUsed
AddressWords == 4          \* words of addressUsed
BroadcastAddress == 0
ScanPeriod == 10           \* an adaptive rescan happens every 10th iteration
ReplyOpcode == 3           \* first byte of a PING-ALL answer and of an ack
ReplyLen == 11             \* opcode and a 10 byte serial

\* addressUsed is [4]uint64; a word is held as the set of its one bits.
AddressBitSet(used, addr) == (addr % AddressWordBits) \in used[addr \div AddressWordBits]

\* A mutant of addressSetUsed: the bit is set whatever the flag says.
AddressSetUsedOnly(used, addr, flag) ==
    [used EXCEPT ![addr \div AddressWordBits] = @ \cup {addr % AddressWordBits}]

\* addressSetUsed (controller.go 143-150).
addressSetUsed(used, addr, flag) ==
    [used EXCEPT ![addr \div AddressWordBits] =
        IF flag THEN @ \cup {addr % AddressWordBits}
                ELSE @ \ {addr % AddressWordBits}]

\* A mutant of AddressScan: the scan keeps the last clear bit it meets.
AddressScanLast(used) ==
    LET free == {i \in 0..(AddressScanLimit - 1) : ~AddressBitSet(used, i)}
    IN  IF free = {} THEN -1 ELSE CHOOSE i \in free : \A j \in free : j <= i

\* The loop of addressFindFree (controller.go 133-136): the first i in 0..253
\* whose bit is clear, or -1 when the loop runs to its end.
AddressScan(used) ==
    LET free == {i \in 0..(AddressScanLimit - 1) : ~AddressBitSet(used, i)}
    IN  IF free = {} THEN -1 ELSE CHOOSE i \in free : \A j \in free : i <= j

\* addressFindFree (controller.go 132-141): the address, whether one was found,
\* and the bitmap afterwards.
addressFindFree(used) ==
    LET i == AddressScan(used)
    IN  IF i >= 0
        THEN [addr |-> i, ok |-> TRUE, used |-> addressSetUsed(used, i, TRUE)]
        ELSE [addr |-> 0, ok |-> FALSE, used |-> used]

\* The bitmap New leaves behind (controller.go 54-56).
AddressUsedNew ==
    addressSetUsed(
        addressSetUsed(
            addressSetUsed([w \in 0..(AddressWords - 1) |-> {}], BroadcastAddress, TRUE),
            ControllerAddress, TRUE),
        EscapeByte, TRUE)

\* The addresses whose bit is set.
AddressesUsed(used) == {a \in Byte : AddressBitSet(used, a)}

\* Serials of the devices on the bus.
SerialA == [i \in 1..(ReplyLen - 1) |-> i - 1]
SerialB == [i \in 1..(ReplyLen - 1) |-> ReplyLen - i]
Serials == {SerialA, SerialB}

\* What a commandExecTimeout of detectAndConfigure can return.
CmdTimeout == [resp |-> Nil, err |-> FALSE]
CmdError == [resp |-> Nil, err |-> TRUE]
PingResults ==
    {CmdTimeout, CmdError}
        \cup {[resp |-> <<ReplyOpcode>> \o s, err |-> FALSE] : s \in Serials}
        \cup {[resp |-> <<ReplyOpcode + 1>> \o SerialA, err |-> FALSE],
              [resp |-> <<ReplyOpcode>> \o SubSeq(SerialA, 1, ReplyLen - 2), err |-> FALSE]}
AckResults ==
    {CmdTimeout, CmdError,
     [resp |-> <<ReplyOpcode>> \o SerialA, err |-> FALSE],
     [resp |-> <<ReplyOpcode + 1>> \o SerialA, err |-> FALSE]}

\* detect.go 51 and 81: the response is an answer.
IsReply(resp) == Len(resp) = ReplyLen /\ resp[1] = ReplyOpcode

\* The device table is a Go map from string(serial) to *BusDevice: a set of
\* records, each with the key it is stored under.
DeviceKeys(devs) == {e.key : e \in devs}

\* A mutant of DeviceLookup: the serial is never found.
DeviceLookupNever(devs, k) == {}

\* c.devices[key] (detect.go 52).
DeviceLookup(devs, k) == {e \in devs : e.key = k}

\* c.devices[key] = dev (detect.go 69).
DevicePut(devs, k, dev) == {e \in devs : e.key # k} \cup {dev}

\* A mutant of DeviceDelete: the entry stays.
DeviceDeleteNone(devs, k) == devs

\* delete(c.devices, key) (controller.go 168).
DeviceDelete(devs, k) == {e \in devs : e.key # k}

\* dev.close() (device.go 27-32) on the record with this id.
DeviceClose(devs, id, why) ==
    {IF e.id = id /\ ~e.closed
     THEN [e EXCEPT !.closed = TRUE, !.closedBy = why]
     ELSE IF e.id = id THEN [e EXCEPT !.closed = TRUE] ELSE e : e \in devs}

NoEnum == [serial |-> Nil, known |-> FALSE, knownId |-> 0, knownAddress |-> 0,
           factory |-> FALSE, id |-> 0, address |-> 0, acked |-> "none", lost |-> FALSE]

NoRecord == [age |-> "none", disc |-> 0, stray |-> FALSE, address |-> 0]

\* New(phy, numDevices, newDev) (controller.go 41-67).
CtlNew(numDevices) ==
    /\ devices = {}
    /\ addressUsed = AddressUsedNew
    /\ devicesNumber = numDevices
    /\ devicesMax = 0
    /\ scanCount = 0
    /\ scanDue = FALSE
    /\ ctlPc = "new"
    /\ ctlCur = 0
    /\ todo = {}
    /\ nextId = 1
    /\ ctlHist = [id \in 1..MaxRecords |-> NoRecord]
    /\ lastEnum = NoEnum
    /\ lostSerials = {}

NumDevicesSet == {-1, 0, 1, 2}

CtlInit == \E n \in NumDevicesSet : CtlNew(n)

\* Run (controller.go 154-156): the PHY is started and detectStart puts the
\* rescan deadline 20 seconds ahead.
RunStart ==
    /\ ctlPc = "new"
    /\ ctlPc' = "detect"
    /\ scanDue' = FALSE
    /\ UNCHANGED <<devices, addressUsed, devicesNumber, devicesMax, scanCount, ctlCur,
                   todo, nextId, ctlHist, lastEnum, lostSerials>>

\* detectStart (detect.go 8-12) as the PHY's presence callback, which New
\* installs when numDevices is negative (controller.go 59-64).
detectStart ==
    /\ ctlPc # "new"
    /\ devicesNumber < 0
    /\ scanDue
    /\ scanDue' = FALSE
    /\ UNCHANGED <<devices, addressUsed, devicesNumber, devicesMax, scanCount, ctlPc,
                   ctlCur, todo, nextId, ctlHist, lastEnum, lostSerials>>

\* Time passes the rescan deadline: time.Now().After(scanTime) (detect.go 29).
ScanTimePasses ==
    /\ ctlPc # "new"
    /\ ~scanDue
    /\ scanDue' = TRUE
    /\ UNCHANGED <<devices, addressUsed, devicesNumber, devicesMax, scanCount, ctlPc,
                   ctlCur, todo, nextId, ctlHist, lastEnum, lostSerials>>

\* A mutant of FixedCountReached: the table is never taken as full.
FixedCountReachedNever(n) == FALSE

\* detect.go 21: fixed-count mode and the table holds devicesNumber entries.
FixedCountReached(n) == devicesNumber > 0 /\ n >= devicesNumber

\* A mutant of AdaptiveAtMax: the table has to exceed the maximum.
AdaptiveAtMaxStrict(n, dm) == n > dm /\ dm > 0

\* detect.go 29: the table is at the non-zero maximum loaded at detect.go 15.
AdaptiveAtMax(n, dm) == n >= dm /\ dm > 0

\* detectAndConfigure up to the PING-ALL command (detect.go 14-46).  The local
\* devicesMax is the value loaded before the store.  TXSendBreak and the
\* sleep (39-42) change nothing of the controller.
DetectBegin ==
    /\ ctlPc = "detect"
    /\ LET n == Cardinality(devices)
           dm == devicesMax
           rescan == devicesNumber < 0 /\ AdaptiveAtMax(n, dm) /\ scanDue
           skip == IF devicesNumber >= 0
                   THEN FixedCountReached(n)
                   ELSE rescan /\ scanCount + 1 < ScanPeriod
       IN  /\ devicesMax' = IF n > dm THEN n ELSE dm
           /\ scanCount' = IF rescan
                           THEN (IF scanCount + 1 >= ScanPeriod THEN 0 ELSE scanCount + 1)
                           ELSE scanCount
           /\ ctlPc' = IF skip THEN "poll" ELSE "ping"
           /\ todo' = IF skip THEN DeviceKeys(devices) ELSE {}
    /\ lastEnum' = NoEnum
    /\ UNCHANGED <<devices, addressUsed, devicesNumber, scanDue, ctlCur, nextId, ctlHist,
                   lostSerials>>

\* The PING-ALL command returns (detect.go 46-70): the table lookup, the
\* address allocation, the factory call and the insertion.
DetectPingResult(r) ==
    /\ ctlPc = "ping"
    /\ IF r.err
       THEN /\ ctlPc' = "returned"
            /\ UNCHANGED <<devices, addressUsed, ctlCur, todo, nextId, ctlHist, lastEnum>>
       ELSE IF ~IsReply(r.resp)
       THEN /\ ctlPc' = "poll"
            /\ todo' = DeviceKeys(devices)
            /\ UNCHANGED <<devices, addressUsed, ctlCur, nextId, ctlHist, lastEnum>>
       ELSE LET key == SubSeq(r.resp, 2, Len(r.resp))
                found == DeviceLookup(devices, key)
                present == {e \in devices : e.key = key}
                alloc == addressFindFree(addressUsed)
                enum == [NoEnum EXCEPT !.serial = key,
                                       !.known = present # {},
                                       !.acked = "pending",
                                       !.lost = key \in lostSerials]
            IN  IF found # {}
                THEN LET dev == CHOOSE e \in found : TRUE
                     IN  /\ ctlPc' = "assign"
                         /\ ctlCur' = dev.id
                         /\ lastEnum' = [enum EXCEPT !.knownId = dev.id,
                                                     !.knownAddress = dev.address,
                                                     !.id = dev.id,
                                                     !.address = dev.address]
                         /\ UNCHANGED <<devices, addressUsed, todo, nextId, ctlHist>>
                ELSE IF ~alloc.ok
                THEN /\ ctlPc' = "poll"
                     /\ todo' = DeviceKeys(devices)
                     /\ UNCHANGED <<devices, addressUsed, ctlCur, nextId, ctlHist, lastEnum>>
                ELSE LET dev == [key |-> key, serial |-> SubSeq(r.resp, 2, Len(r.resp)),
                                 address |-> alloc.addr, closed |-> FALSE,
                                 closedBy |-> "none", id |-> nextId]
                     IN  /\ nextId <= MaxRecords
                         /\ devices' = DevicePut(devices, key, dev)
                         /\ addressUsed' = alloc.used
                         /\ nextId' = nextId + 1
                         /\ ctlHist' = [ctlHist EXCEPT ![nextId] =
                                           [NoRecord EXCEPT !.age = "open",
                                                            !.address = alloc.addr]]
                         /\ ctlPc' = "assign"
                         /\ ctlCur' = nextId
                         /\ lastEnum' = [enum EXCEPT !.factory = TRUE,
                                                     !.id = nextId,
                                                     !.address = alloc.addr]
                         /\ UNCHANGED todo
    /\ UNCHANGED <<devicesNumber, devicesMax, scanCount, scanDue, lostSerials>>

\* The assignment command returns (detect.go 76-86).
DetectAssignResult(r) ==
    /\ ctlPc = "assign"
    /\ IF r.err
       THEN /\ ctlPc' = "returned"
            /\ UNCHANGED <<devices, todo, lastEnum>>
       ELSE /\ devices' = IF IsReply(r.resp) THEN devices
                          ELSE DeviceClose(devices, ctlCur, "ack")
            /\ lastEnum' = [lastEnum EXCEPT !.acked = IF IsReply(r.resp) THEN "ok" ELSE "bad"]
            /\ ctlPc' = "poll"
            /\ todo' = DeviceKeys(devices)
    /\ UNCHANGED <<addressUsed, devicesNumber, devicesMax, scanCount, scanDue, ctlCur,
                   nextId, ctlHist, lostSerials>>

\* One turn of the range over c.devices on a closed record (controller.go
\* 164-172): Disconnected, the address is freed, the entry deleted.
PollReap(k, err) ==
    /\ ctlPc = "poll"
    /\ k \in todo
    /\ \E dev \in devices :
        /\ dev.key = k
        /\ dev.closed
        /\ ctlHist' = [ctlHist EXCEPT ![dev.id].disc = @ + 1,
                                      ![dev.id].stray = @ \/ ctlHist[dev.id].disc > 0,
                                      ![dev.id].age = "reaped"]
        /\ addressUsed' = addressSetUsed(addressUsed, dev.address, FALSE)
        /\ devices' = DeviceDelete(devices, k)
    /\ todo' = todo \ {k}
    /\ ctlPc' = IF err THEN "returned" ELSE "poll"
    /\ lastEnum' = NoEnum
    /\ UNCHANGED <<devicesNumber, devicesMax, scanCount, scanDue, ctlCur, nextId,
                   lostSerials>>

\* One turn of the range on an open record (controller.go 175-183): Access,
\* and close when the driver says the device is not active.
PollAccess(k, active, err) ==
    /\ ctlPc = "poll"
    /\ k \in todo
    /\ \E dev \in devices :
        /\ dev.key = k
        /\ ~dev.closed
        /\ ctlHist' = [ctlHist EXCEPT ![dev.id].stray = @ \/ ctlHist[dev.id].disc > 0,
                                      ![dev.id].age = IF active THEN @ ELSE "closed"]
        /\ devices' = IF active THEN devices ELSE DeviceClose(devices, dev.id, "access")
        /\ lostSerials' = IF active THEN lostSerials ELSE lostSerials \cup {dev.serial}
    /\ todo' = todo \ {k}
    /\ ctlPc' = IF err THEN "returned" ELSE "poll"
    /\ lastEnum' = NoEnum
    /\ UNCHANGED <<addressUsed, devicesNumber, devicesMax, scanCount, scanDue, ctlCur,
                   nextId>>

\* The range is over: the next iteration of the for loop begins.
PollEnd ==
    /\ ctlPc = "poll"
    /\ todo = {}
    /\ ctlPc' = "detect"
    /\ ctlHist' = [id \in DOMAIN ctlHist |->
                      [ctlHist[id] EXCEPT !.age = IF @ = "closed" THEN "due"
                                                  ELSE IF @ = "due" THEN "late" ELSE @]]
    /\ UNCHANGED <<devices, addressUsed, devicesNumber, devicesMax, scanCount, scanDue,
                   ctlCur, todo, nextId, lastEnum, lostSerials>>

CtlNext ==
    \/ RunStart /\ UNCHANGED notCtl
    \/ detectStart /\ UNCHANGED notCtl
    \/ ScanTimePasses /\ UNCHANGED notCtl
    \/ DetectBegin /\ UNCHANGED notCtl
    \/ \E r \in PingResults : DetectPingResult(r) /\ UNCHANGED notCtl
    \/ \E r \in AckResults : DetectAssignResult(r) /\ UNCHANGED notCtl
    \/ \E k \in Serials, err \in BOOLEAN : PollReap(k, err) /\ UNCHANGED notCtl
    \/ \E k \in Serials, active \in BOOLEAN, err \in BOOLEAN : PollAccess(k, active, err) /\ UNCHANGED notCtl
    \/ PollEnd /\ UNCHANGED notCtl

----------------------------------------------------------------------------
(* SpecAlloc: the address allocator alone.  addressFindFree is called as   *)
(* detectAndConfigure calls it and addresses it handed out are freed as    *)
(* Run frees them, in any order.                                           *)

MaxFrees == 2              \* addresses freed per behaviour

\* The addresses that are freed: the first ones, the neighbours of 0xAA and
\* the last of the pool.
FreeCandidates == {2, 3, EscapeByte - 1, EscapeByte + 1, AddressScanLimit - 1}

NoAlloc == [op |-> "none", addr |-> 0, before |-> AddressUsedNew, prev |-> -1,
            wasHeld |-> FALSE]

AllocInit ==
    /\ allocHeld = {}
    /\ allocLast = NoAlloc
    /\ allocFrees = 0

\* A call of addressFindFree (detect.go 54).
AllocFind ==
    /\ LET r == addressFindFree(addressUsed)
       IN  /\ addressUsed' = r.used
           /\ allocHeld' = IF r.ok THEN allocHeld \cup {r.addr} ELSE allocHeld
           /\ allocLast' = [op |-> IF r.ok THEN "alloc" ELSE "fail",
                            addr |-> r.addr,
                            before |-> addressUsed,
                            prev |-> IF allocLast.op = "alloc" THEN allocLast.addr ELSE -1,
                            wasHeld |-> r.ok /\ r.addr \in allocHeld]
    /\ UNCHANGED allocFrees

\* addressSetUsed(dev.address, false) on an address handed out before
\* (controller.go 167).
AllocFree(a) ==
    /\ a \in allocHeld
    /\ allocFrees < MaxFrees
    /\ allocFrees' = allocFrees + 1
    /\ addressUsed' = addressSetUsed(addressUsed, a, FALSE)
    /\ allocHeld' = allocHeld \ {a}
    /\ allocLast' = [NoAlloc EXCEPT !.op = "free", !.addr = a, !.before = addressUsed]

AllocNext ==
    \/ AllocFind /\ UNCHANGED notAlloc
    \/ \E a \in FreeCandidates : AllocFree(a) /\ UNCHANGED notAlloc

----------------------------------------------------------------------------
(* SpecDev: an external caller of BusDevice.CommandExecTimeout (device.go  *)
(* 53-70) on a handle the factory was given, next to the polling loop of a *)
(* controller in continuous mode.  The handle outlives its table entry.    *)

MaxDevCalls == 2           \* CommandExecTimeout calls by the external caller

\* d.closed of the handle with this id: an entry leaves the table only closed.
HandleClosed(id) ==
    IF \E e \in devices : e.id = id
    THEN \E e \in devices : e.id = id /\ e.closed
    ELSE TRUE

\* d.address of the handle with this id.
HandleAddress(id) == ctlHist[id].address

\* The ids of the records of the table that own this address now.
AddressOwners(addr) == {e.id : e \in {d \in devices : d.address = addr}}

NoDevCall == [id |-> 0, closedAtCall |-> FALSE, wrote |-> FALSE, closedAtWrite |-> FALSE,
              addrDest |-> 0, owners |-> {}, ret |-> "none"]

DevInit ==
    /\ devCallPc = "idle"
    /\ devCall = NoDevCall
    /\ devCalls = 0

\* A mutant of IsClosedAtCall: the flag is read as it is at the start of Run.
IsClosedNever(id) == FALSE

\* d.isClosed() (device.go 44-49) as CommandExecTimeout calls it (device.go 65).
IsClosedAtCall(id) == HandleClosed(id)

\* BusDevice.CommandExecTimeout up to its call of commandExecTimeout
\* (device.go 64-69): ErrorClosed when the handle is closed.
DevCallBegin(id) ==
    /\ devCallPc \in {"idle", "done"}
    /\ devCalls < MaxDevCalls
    /\ id < nextId
    /\ devCalls' = devCalls + 1
    /\ IF IsClosedAtCall(id)
       THEN /\ devCallPc' = "done"
            /\ devCall' = [NoDevCall EXCEPT !.id = id,
                                            !.closedAtCall = HandleClosed(id),
                                            !.ret = "ErrorClosed"]
       ELSE /\ devCallPc' = "checked"
            /\ devCall' = [NoDevCall EXCEPT !.id = id, !.closedAtCall = HandleClosed(id)]
    /\ UNCHANGED ctlVars

\* commandExecTimeout(timeout, d.address, d.address, ...) gets the command
\* slot, which the polling loop does not hold, and writes the frame
\* (device.go 69, controller.go 90-102).
DevCallWrite ==
    /\ devCallPc = "checked"
    /\ ctlPc \notin {"ping", "assign"}
    /\ devCallPc' = "done"
    /\ devCall' = [devCall EXCEPT !.wrote = TRUE,
                                  !.closedAtWrite = HandleClosed(devCall.id),
                                  !.addrDest = HandleAddress(devCall.id),
                                  !.owners = AddressOwners(HandleAddress(devCall.id)),
                                  !.ret = "result"]
    /\ UNCHANGED <<devCalls, ctlVars>>

\* commandExecTimeout gives up waiting for the command slot: nothing is
\* written (controller.go 90-93, 125-127).
DevCallNoSlot ==
    /\ devCallPc = "checked"
    /\ devCallPc' = "done"
    /\ devCall' = [devCall EXCEPT !.ret = "result"]
    /\ UNCHANGED <<devCalls, ctlVars>>

DevNext ==
    \/ RunStart /\ UNCHANGED notCtl
    \/ DetectBegin /\ UNCHANGED notCtl
    \/ \E r \in PingResults : DetectPingResult(r) /\ UNCHANGED notCtl
    \/ \E r \in AckResults : DetectAssignResult(r) /\ UNCHANGED notCtl
    \/ \E k \in Serials, err \in BOOLEAN : PollReap(k, err) /\ UNCHANGED notCtl
    \/ \E k \in Serials, active \in BOOLEAN, err \in BOOLEAN : PollAccess(k, active, err) /\ UNCHANGED notCtl
    \/ PollEnd /\ UNCHANGED notCtl
    \/ \E id \in 1..MaxRecords : DevCallBegin(id) /\ UNCHANGED notDev
    \/ DevCallWrite /\ UNCHANGED notDev
    \/ DevCallNoSlot /\ UNCHANGED notDev

----------------------------------------------------------------------------
(* SpecRun: Controller.Run next to the port being closed.  Close           *)
(* (controller.go 188-190, phy.go 177-179) closes the port; PHY.Run        *)
(* returns when Port.Read fails or an upward callback returns an error,    *)
(* and its deferred Close closes the port too (phy.go 49, 61-64).          *)
(* Controller.Run starts PHY.Run with a go statement and drops its result  *)
(* (controller.go 154): it sees a closed port only through a command whose *)
(* write fails.  On a closed port a write fails at once, so every command  *)
(* returns (nil, error).                                                   *)

CloseCauses == {"Close", "read", "callback"}

RunInit ==
    /\ portClosed = FALSE
    /\ closeCause = "none"

\* Close is called, Port.Read fails, or an upward PHY callback returns an
\* error: the port is closed and PHY.Run has returned.
PortClose(cause) ==
    /\ ~portClosed
    /\ portClosed' = TRUE
    /\ closeCause' = cause
    /\ UNCHANGED <<phyVars, cmdVars, ctlVars, allocVars, devVars, batVars, feedVars, scrVars,
                   earlyVars>>

\* What the commands of detectAndConfigure can return with the port as it is.
PingResultsNow == IF portClosed THEN {CmdError} ELSE PingResults
AckResultsNow == IF portClosed THEN {CmdError} ELSE AckResults

\* One step of the goroutine that runs Controller.Run.
RunStep ==
    \/ RunStart /\ UNCHANGED notCtl
    \/ DetectBegin /\ UNCHANGED notCtl
    \/ \E r \in PingResultsNow : DetectPingResult(r) /\ UNCHANGED notCtl
    \/ \E r \in AckResultsNow : DetectAssignResult(r) /\ UNCHANGED notCtl
    \/ \E k \in Serials, err \in BOOLEAN : PollReap(k, err) /\ UNCHANGED notCtl
    \/ \E k \in Serials, active \in BOOLEAN, err \in BOOLEAN : PollAccess(k, active, err) /\ UNCHANGED notCtl
    \/ PollEnd /\ UNCHANGED notCtl

\* The presence callback needs PHY.Run to be reading.
RunPresence == ~portClosed /\ detectStart /\ UNCHANGED notCtl

RunTime == ScanTimePasses /\ UNCHANGED notCtl

RunNext ==
    \/ RunStep
    \/ RunPresence
    \/ RunTime
    \/ \E cause \in CloseCauses : PortClose(cause)

----------------------------------------------------------------------------
(* The battery driver: controller/functions/battery/battery.go.  A         *)
(* DeviceBattery made by New (82-93) for the handle with serial SerialA,   *)
(* the update channel of cmd/main.go (one slot) and its consumer.  The     *)
(* typed snapshot holds the decoded integers; the divisions by 1000 and    *)
(* 10 that turn them into floats are left out, as is the wall clock of     *)
(* LastData, which is held as the number of the Access that set it.        *)

MaxAccesses == 6           \* Access calls per behaviour
UpdateChanCap == 1         \* make(chan (*battery.DeviceBattery), 1)

OpState == 68              \* 0x44, answered by 0x45
OpCycle == 74              \* 0x4A, answered by 0x4B
OpUser == 66               \* 0x42, answered by 0x43
OpSerial == 132            \* 0x84, answered by 0x85
OpFactory == 136           \* 0x88, answered by 0x89

StateMinLen == 6
CycleMinLen == 12
UserMinLen == 9
SerialMinLen == 11
FactoryMinLen == 24

\* binary.LittleEndian.Uint16(b[i:]) with Go's index i.
U16(b, i) == b[i + 1] + 256 * b[i + 2]

\* int(int8(x)).
Int8(x) == IF x >= 128 THEN x - 256 ELSE x

\* The records Access reads, by the value of readIndex in its switch
\* (battery.go 238-259): the request, the reply opcode and the cache it fills.
Cursors == 0..4

\* A mutant of Request: a cell count of 0 is taken as 8, as the unused
\* numCell of Access has it.
RequestEightCells(c, numCells) ==
    CASE c = 0 -> <<68, 0, ((IF numCells = 0 THEN 8 ELSE numCells) - 1) % 256>>
      [] c = 1 -> <<74>>
      [] c = 2 -> <<66>>
      [] c = 3 -> <<132>>
      [] OTHER -> <<136>>

Request(c, numCells) ==
    CASE c = 0 -> <<OpState, 0, (numCells - 1) % 256>>
      [] c = 1 -> <<OpCycle>>
      [] c = 2 -> <<OpUser>>
      [] c = 3 -> <<OpSerial>>
      [] OTHER -> <<OpFactory>>
ExpectedReply(c) ==
    CASE c = 0 -> OpState + 1
      [] c = 1 -> OpCycle + 1
      [] c = 2 -> OpUser + 1
      [] c = 3 -> OpSerial + 1
      [] OTHER -> OpFactory + 1
CacheName(c) ==
    CASE c = 0 -> "currentState"
      [] c = 1 -> "cycleInfo"
      [] c = 2 -> "userSettings"
      [] c = 3 -> "serial"
      [] OTHER -> "factoryInfo"

\* The snapshot New leaves behind (battery.go 82-93).
DataNew ==
    [Connected |-> TRUE, LastData |-> 0, ManufacturerName |-> <<>>,
     BatteryType |-> 0, CellCapacity |-> <<0, 0>>, BatteryNumberOfCells |-> 0,
     PreferredCharge |-> 0, PreferredStorage |-> 0, PreferredMax |-> 0,
     SelfDischargeEnabled |-> FALSE, SelfDischargeHours |-> 0,
     ChargeCycles |-> 0, ErrorOverCharged |-> 0, ErrorOverDischarged |-> 0,
     ErrorOverTemperature |-> 0, TempCurrentC |-> 0, CellVoltage |-> <<>>]

\* The index of the first 0 of s from Go's index from on, or -1
\* (bytes.IndexByte(s[from:], 0)).
IndexZero(s, from) ==
    LET zs == {i \in (from + 1)..Len(s) : s[i] = 0}
    IN  IF zs = {} THEN -1
        ELSE (CHOOSE i \in zs : \A j \in zs : i <= j) - 1 - from

\* A decoder gives the snapshot, whether it reports a change, and whether it
\* ran into a slice out of range.

\* deltaSerial (battery.go 95-113).  With no 0 after the serial the name is
\* d.serial[11:11+len(d.serial)], which is beyond the capacity of the cache.
deltaSerial(rec, data, now) ==
    IF Len(rec) < SerialMinLen \/ SubSeq(rec, 2, SerialMinLen) # SerialA
    THEN [data |-> data, changed |-> FALSE, panic |-> FALSE]
    ELSE LET found == IndexZero(rec, SerialMinLen)
             index == IF found < 0 THEN Len(rec) ELSE found
         IN  IF SerialMinLen + index > Len(rec)
             THEN [data |-> data, changed |-> FALSE, panic |-> TRUE]
             ELSE [data |-> [data EXCEPT !.ManufacturerName =
                                SubSeq(rec, SerialMinLen + 1, SerialMinLen + index)],
                   changed |-> TRUE, panic |-> FALSE]

\* deltaFactoryData (battery.go 115-138).
deltaFactoryData(rec, data, now) ==
    IF Len(rec) < FactoryMinLen
    THEN [data |-> data, changed |-> FALSE, panic |-> FALSE]
    ELSE [data |-> [data EXCEPT !.BatteryType = rec[2],
                                !.CellCapacity = <<U16(rec, 10), U16(rec, 12)>>,
                                !.BatteryNumberOfCells = rec[24]],
          changed |-> TRUE, panic |-> FALSE]

\* deltaUser (battery.go 140-154).
deltaUser(rec, data, now) ==
    IF Len(rec) < UserMinLen
    THEN [data |-> data, changed |-> FALSE, panic |-> FALSE]
    ELSE [data |-> [data EXCEPT !.PreferredCharge = U16(rec, 1) + 65536 * rec[4],
                                !.PreferredStorage = U16(rec, 4),
                                !.PreferredMax = U16(rec, 6),
                                !.SelfDischargeEnabled = rec[9] # 255,
                                !.SelfDischargeHours = rec[9]],
          changed |-> TRUE, panic |-> FALSE]

\* deltaCycle (battery.go 156-169).
deltaCycle(rec, data, now) ==
    IF Len(rec) < CycleMinLen
    THEN [data |-> data, changed |-> FALSE, panic |-> FALSE]
    ELSE [data |-> [data EXCEPT !.ChargeCycles = U16(rec, 1),
                                !.ErrorOverTemperature = U16(rec, 6),
                                !.ErrorOverCharged = U16(rec, 8),
                                !.ErrorOverDischarged = U16(rec, 10)],
          changed |-> TRUE, panic |-> FALSE]

\* deltaState (battery.go 171-198): CellVoltageV is made anew, all zero, when
\* its length is not the cell count, before the length of the record is
\* looked at.
deltaState(rec, data, now) ==
    IF Len(rec) < StateMinLen \/ rec[2] # 0
    THEN [data |-> data, changed |-> FALSE, panic |-> FALSE]
    ELSE LET numCell == rec[3] + 1
             cells == IF Len(data.CellVoltage) # numCell
                      THEN [i \in 1..numCell |-> 0]
                      ELSE data.CellVoltage
         IN  IF Len(rec) < 3 + 1 + 2 * numCell
             THEN [data |-> [data EXCEPT !.CellVoltage = cells],
                   changed |-> FALSE, panic |-> FALSE]
             ELSE [data |-> [data EXCEPT
                                !.CellVoltage = [i \in 1..numCell |-> U16(rec, 3 + 2 * (i - 1))],
                                !.TempCurrentC = Int8(rec[3 + 2 * numCell + 1]),
                                !.LastData = now],
                   changed |-> TRUE, panic |-> FALSE]

\* The decoder Access passes to readData for this record.
Delta(c, rec, data, now) ==
    CASE c = 0 -> deltaState(rec, data, now)
      [] c = 1 -> deltaCycle(rec, data, now)
      [] c = 2 -> deltaUser(rec, data, now)
      [] c = 3 -> deltaSerial(rec, data, now)
      [] OTHER -> deltaFactoryData(rec, data, now)

\* What parent.CommandExecTimeout hands to readData: (nil, nil) after a
\* timeout, (nil, err) after an error, or the payload of the answer.
ReplyTimeout == [kind |-> "timeout", bytes |-> <<>>]
ReplyError == [kind |-> "error", bytes |-> <<>>]
ReplyData(b) == [kind |-> "data", bytes |-> b]

StateA == <<OpState + 1, 0, 1, 16, 14, 17, 14, 25>>
StateB == <<OpState + 1, 0, 1, 16, 14, 17, 14, 200>>
StateFewBytes == <<OpState + 1, 0, 3, 16, 14, 17>>
CycleA == <<OpCycle + 1, 5, 0, 0, 0, 0, 1, 0, 2, 0, 3, 0>>
CycleB == <<OpCycle + 1, 6, 0, 0, 0, 0, 1, 0, 2, 0, 3, 0>>
UserA == <<OpUser + 1, 208, 7, 0, 216, 14, 104, 16, 255>>
UserB == <<OpUser + 1, 208, 7, 0, 216, 14, 104, 16, 48>>
SerialNamed == <<OpSerial + 1>> \o SerialA \o <<66, 71, 0>>
SerialUnterminated == <<OpSerial + 1>> \o SerialA \o <<66>>
SerialForeign == <<OpSerial + 1>> \o SerialB \o <<66, 0>>
FactoryA == <<OpFactory + 1, 1, 184, 11, 116, 14, 104, 16, 216, 14, 220, 5, 0, 0,
              10, 0, 50, 0, 0, 60, 246, 45, 0, 2>>
FactoryB == <<OpFactory + 1, 1, 184, 11, 116, 14, 104, 16, 216, 14, 220, 5, 0, 0,
              10, 0, 50, 0, 0, 60, 246, 45, 0, 0>>

\* The answers tried for the record of cursor c: silence, an error, an empty
\* payload, an answer of another opcode, one too short for the decoder, and
\* full records.
Replies(c) ==
    {ReplyTimeout, ReplyError, ReplyData(<<>>),
     ReplyData(<<ExpectedReply(c) + 1, 0, 1>>),
     ReplyData(<<ExpectedReply(c), 0, 1>>)}
    \cup {ReplyData(b) : b \in
            CASE c = 0 -> {StateA, StateB, StateFewBytes}
              [] c = 1 -> {CycleA, CycleB}
              [] c = 2 -> {UserA, UserB}
              [] c = 3 -> {SerialNamed, SerialUnterminated, SerialForeign}
              [] OTHER -> {FactoryA, FactoryB}}

NoBatCall ==
    [op |-> "none", cursor |-> -1, cmd |-> <<>>, reply |-> ReplyTimeout,
     cacheBefore |-> <<>>, dataBefore |-> DataNew, chanBefore |-> 0,
     ran |-> FALSE, changed |-> FALSE, sent |-> FALSE, dropped |-> FALSE,
     active |-> FALSE, err |-> FALSE]

BatInit ==
    /\ readIndex = 0
    /\ batCache = [n \in {CacheName(c) : c \in Cursors} |-> <<>>]
    /\ batData = DataNew
    /\ updateChan = 0
    /\ batPc = "idle"
    /\ batCall = NoBatCall
    /\ batRequests = <<>>
    /\ batAccesses = 0

\* readData (battery.go 201-227) on the record of cursor c: the cache and the
\* snapshot it leaves, what it returns, and whether the decoder ran.
readData(c, reply, cache, data, now) ==
    LET same == [cache |-> cache, data |-> data, ran |-> FALSE,
                 changed |-> FALSE, panic |-> FALSE]
    IN  IF reply.kind # "data"
        THEN same @@ [active |-> FALSE, err |-> reply.kind = "error"]
        ELSE IF Len(reply.bytes) = 0 \/ reply.bytes[1] # ExpectedReply(c)
        THEN same @@ [active |-> FALSE, err |-> FALSE]
        ELSE IF reply.bytes # cache[CacheName(c)]
        THEN LET d == Delta(c, reply.bytes, data, now)
             IN  [cache |-> [cache EXCEPT ![CacheName(c)] = reply.bytes],
                  data |-> d.data, ran |-> TRUE, changed |-> d.changed,
                  panic |-> d.panic, active |-> d.changed, err |-> FALSE]
        ELSE same @@ [active |-> TRUE, err |-> FALSE]

\* A plain send on the channel, which waits for room.
signalUpdateBlocking(pending) ==
    [ready |-> pending < UpdateChanCap, pending |-> pending + 1]

\* signalUpdate (battery.go 229-234): the select sends when the channel has
\* room and falls to its default case when it has none.
signalUpdate(pending) ==
    [ready |-> TRUE,
     pending |-> IF pending < UpdateChanCap THEN pending + 1 ELSE pending]

\* A mutant of ReadIndexAfter: the default case leaves readIndex as it is.
ReadIndexKept(index) == index

\* 238-259: readIndex as the switch leaves it, index being its value after
\* the increment.
ReadIndexAfter(index) == IF index \in 0..3 THEN index ELSE -1

\* Access (battery.go 237-260) up to the return of readData.  Only the case
\* of cursor 0 goes on to signalUpdate.
AccessCall(reply) ==
    /\ batPc = "idle"
    /\ batData.Connected
    /\ LET index == readIndex + 1
           c == IF index \in 0..3 THEN index ELSE 4
           r == readData(c, reply, batCache, batData, batAccesses + 1)
       IN  /\ reply \in Replies(c)
           /\ readIndex' = ReadIndexAfter(index)
           /\ batRequests' = Append(batRequests, Request(c, batData.BatteryNumberOfCells))
           /\ batCache' = r.cache
           /\ batData' = r.data
           /\ batCall' = [op |-> "Access", cursor |-> c,
                          cmd |-> Request(c, batData.BatteryNumberOfCells),
                          reply |-> reply,
                          cacheBefore |-> batCache[CacheName(c)],
                          dataBefore |-> batData, chanBefore |-> updateChan,
                          ran |-> r.ran, changed |-> r.changed, sent |-> FALSE,
                          dropped |-> FALSE,
                          active |-> r.active, err |-> r.err]
           /\ batPc' = IF r.panic THEN "panicked"
                       ELSE IF c = 0 THEN "signal" ELSE "idle"
    /\ batAccesses' = batAccesses + 1
    /\ UNCHANGED updateChan

\* Access called by anyone, whatever it returned before.
BatAccess(reply) == batAccesses < MaxAccesses /\ AccessCall(reply)

\* Disconnected (battery.go 263-270) up to its signalUpdate.
BatDisconnected ==
    /\ batPc = "idle"
    /\ batData.Connected
    /\ batData' = [batData EXCEPT !.Connected = FALSE]
    /\ batCall' = [NoBatCall EXCEPT !.op = "Disconnected",
                                    !.dataBefore = batData,
                                    !.chanBefore = updateChan]
    /\ batPc' = "signal"
    /\ UNCHANGED <<readIndex, batCache, updateChan, batRequests, batAccesses>>

\* The signalUpdate of Access or Disconnected, and their return.
BatSignal ==
    /\ batPc = "signal"
    /\ signalUpdate(updateChan).ready
    /\ updateChan' = signalUpdate(updateChan).pending
    /\ batCall' = [batCall EXCEPT !.sent = TRUE,
                                  !.dropped = signalUpdate(updateChan).pending = updateChan]
    /\ batPc' = "idle"
    /\ UNCHANGED <<readIndex, batCache, batData, batRequests, batAccesses>>

\* The consumer of cmd/main.go takes the pending notification.
BatConsume ==
    /\ updateChan > 0
    /\ updateChan' = updateChan - 1
    /\ UNCHANGED <<readIndex, batCache, batData, batPc, batCall, batRequests, batAccesses>>

\* The driver goes through its signalUpdate and nothing else moves.
BatReturn == BatSignal /\ UNCHANGED notBat

\* The driver as Controller.Run calls it (controller.go 164-180): Access in
\* every iteration for as long as it returns active, and Disconnected in the
\* iteration after the one in which it did not.
MaxPolls == 11             \* iterations of the polling loop per behaviour

PolledAccess(reply) ==
    /\ batAccesses < MaxPolls
    /\ batCall.op = "none" \/ batCall.active
    /\ AccessCall(reply)

PolledDisconnected ==
    /\ batCall.op = "Access"
    /\ ~batCall.active
    /\ BatDisconnected

PollNext ==
    \/ (\E reply \in UNION {Replies(c) : c \in Cursors} : PolledAccess(reply)) /\ UNCHANGED notBat
    \/ PolledDisconnected /\ UNCHANGED notBat
    \/ BatReturn
    \/ BatConsume /\ UNCHANGED notBat

BatNext ==
    \/ (\E reply \in UNION {Replies(c) : c \in Cursors} : BatAccess(reply)) /\ UNCHANGED notBat
    \/ BatDisconnected /\ UNCHANGED notBat
    \/ BatReturn
    \/ BatConsume /\ UNCHANGED notBat

----------------------------------------------------------------------------
(* The receive state machine fed any bytes, one per read of the port.      *)

MaxFed == 10          \* bytes fed per behaviour
FedBytes == {0, 1, 2, EscapeByte}

FeedInit == fed = 0 /\ fedFrames = <<>>

\* 60-131: Port.Read returns the one byte m and the loop body runs on it.  A
\* byte that is dispatched in BODY and fills the payload ends a frame; the
\* frame is noted with what the receiver holds of it and what was called.
ReadByte(m) ==
    /\ fed < MaxFed
    /\ wire = <<>>
    /\ LET r == RxStep(rx, m)
           dispatched == rx.isEscaped \/ m # EscapeByte
           ends == /\ dispatched
                   /\ RxResyncState(rx, m) = 4
                   /\ Len(rx.payload) + 1 = rx.rxLen
       IN  /\ rx' = r.s
           /\ rxLog' = IF r.ev = "packet" THEN Append(rxLog, r.pkt) ELSE rxLog
           /\ rxPresence' = IF r.ev = "presence" THEN 1 ELSE 0
           /\ fedFrames' = IF ends
                           THEN Append(fedFrames,
                                       [src |-> rx.addrSource, dst |-> rx.addrDest,
                                        len |-> rx.rxLen - 2,
                                        body |-> Append(rx.payload, m),
                                        ev |-> r.ev, rxState |-> r.s.rxState])
                           ELSE fedFrames
    /\ fed' = fed + 1

FeedNext == \E m \in FedBytes : ReadByte(m) /\ UNCHANGED notFeed

----------------------------------------------------------------------------
(* scramble called again and again on its own output, with one seed.       *)

MaxScrLen == 3             \* bytes given to scramble
MaxScrCalls == 2           \* calls per behaviour
ScrBytes == {0, 1, EscapeByte, 255}

RECURSIVE ScrInputs(_)
ScrInputs(n) ==
    IF n = 0 THEN {<<>>}
    ELSE ScrInputs(n - 1)
         \cup {Append(s, b) : s \in {t \in ScrInputs(n - 1) : Len(t) = n - 1}, b \in ScrBytes}

\* No call of scramble made and none to come.
ScrIdle == scrSeed = 0 /\ scrIn = <<>> /\ scrOut = <<>> /\ scrCalls = MaxScrCalls

ScrInit ==
    /\ scrSeed \in Byte
    /\ scrIn \in ScrInputs(MaxScrLen)
    /\ scrOut = scrIn
    /\ scrCalls = 0

\* scramble(seed, buf, buf): the output takes the place of the input, as in
\* PHY.Run (phy.go 114).
Scramble ==
    /\ scrCalls < MaxScrCalls
    /\ scrOut' = scramble(scrSeed, scrOut)
    /\ scrCalls' = scrCalls + 1
    /\ UNCHANGED <<scrSeed, scrIn>>

ScrNext == Scramble /\ UNCHANGED notScr

----------------------------------------------------------------------------
\* The parts around the PHY, the command slot, the controller and the
\* allocator, as they are before anything has run.
RestInit == DevInit /\ RunInit /\ BatInit /\ FeedInit /\ ScrIdle /\ EarlyInit

\* A fresh PHY and a controller made by New(phy, 0, newDev).
InitFresh == PhyFresh /\ CmdInit /\ CtlNew(0) /\ AllocInit /\ RestInit

SpecAlloc == InitFresh /\ [][AllocNext]_vars

SpecCmd == InitFresh /\ [][CmdNext]_vars

\* The driver under the polling loop, scheduled fairly.
SpecPoll == InitFresh /\ [][PollNext]_vars /\ WF_vars(BatReturn)

SpecEarly == InitFresh /\ [][EarlyNext]_vars

SpecDev == InitFresh /\ [][DevNext]_vars

\* A fresh PHY and a controller made by New in any of its modes.
InitCtl == PhyFresh /\ CmdInit /\ CtlInit /\ AllocInit /\ RestInit

SpecCtl == InitCtl /\ [][CtlNext]_vars

\* The goroutine of Controller.Run keeps being scheduled and time goes on.
SpecRun == InitCtl /\ [][RunNext]_vars /\ WF_vars(RunStep) /\ WF_vars(RunTime)

\* The goroutine calling the driver keeps being scheduled; the consumer of
\* the update channel may never read.
SpecBat == InitFresh /\ [][BatNext]_vars /\ WF_vars(BatReturn)

SpecFeed == InitFresh /\ [][FeedNext]_vars

\* Any seed and any of the inputs.
InitScr ==
    /\ PhyFresh /\ CmdInit /\ CtlNew(0) /\ AllocInit
    /\ DevInit /\ RunInit /\ BatInit /\ FeedInit /\ ScrInit /\ EarlyInit

SpecScr == InitScr /\ [][ScrNext]_vars


----------------------------------------------------------------------------
(* SpecPhy: the transmitter looped back into the receiver.  A write to the *)
(* line happens when the receiver has read everything before it, so that   *)
(* the receiver's state at the start of a frame is on record; the byte     *)
(* streams the receiver sees are all concatenations of garbage and frames, *)
(* and the state machine does not depend on how reads cut the stream.      *)

MaxFrames == 1         \* TXSendPacket calls per behaviour
MaxGarbage == 2        \* garbage bytes per behaviour

SrcSet == {1, EscapeByte}
DstSet == {2, EscapeByte}
SeedSet == {0, EscapeByte}              \* txSeed after 0 and after 170 earlier packets
GarbageBytes == {3, EscapeByte}
\* 34 = 0x22 scrambles to 0xAA under seed 0; 45 makes the low byte of the
\* checksum 0xAA for src 1 and dst 2, under seed 0 and with the scrambler off
ShortPayloads == {<<>>, <<34>>, <<45>>, <<EscapeByte>>, <<EscapeByte, 34>>}
\* LEN = 0xAA, LEN = 255, and LEN wrapping to 0; 170 bytes of 255 make the
\* high byte of the checksum 0xAA with the scrambler off
LongPayloads ==
    {[i \in 1..n |-> 0] : n \in {169, 254, 255}} \cup {[i \in 1..170 |-> 255]}

TxInputs ==
    (SrcSet \X DstSet \X ShortPayloads) \cup ({1} \X {2} \X LongPayloads)

PhyInit ==
    /\ rx = RxInit
    /\ wire = <<>>
    /\ txSeed \in SeedSet
    /\ TXDisableScrambler \in BOOLEAN
    /\ rxLog = <<>>
    /\ rxPresence = 0
    /\ txLog = <<>>
    /\ garbage = 0
    /\ lastWrite = "none"

\* PHY.TXSendPacket(src, dst, pl) with the port looped back.
TXSendPacket(src, dst, pl) ==
    /\ wire = <<>>
    /\ Len(txLog) < MaxFrames
    /\ wire' = TXFrame(src, dst, pl, txSeed, TXDisableScrambler)
    /\ txSeed' = IF TXDisableScrambler THEN txSeed ELSE (txSeed + 1) % 256
    /\ txLog' = Append(txLog, [src |-> src, dst |-> dst, payload |-> pl,
                               rxState |-> rx.rxState, isEscaped |-> rx.isEscaped,
                               garbage |-> garbage, base |-> Len(rxLog),
                               seed |-> txSeed, frame |-> wire'])
    /\ lastWrite' = "tx"
    /\ UNCHANGED <<rx, TXDisableScrambler, rxLog, rxPresence, garbage>>

\* Noise on the line before the first frame: one byte that no transmitter
\* framed.
LineGarbage(b) ==
    /\ wire = <<>>
    /\ txLog = <<>>
    /\ garbage < MaxGarbage
    /\ wire' = <<b>>
    /\ garbage' = garbage + 1
    /\ lastWrite' = "garbage"
    /\ UNCHANGED <<rx, txSeed, TXDisableScrambler, rxLog, rxPresence, txLog>>

\* 60-132: one round of the read loop of PHY.Run.  Port.Read returns the bytes
\* pending on the line and the state machine runs on each in turn; the
\* callbacks return nil.
Run ==
    /\ wire # <<>>
    /\ LET r == RxFeed([s |-> rx, log |-> rxLog, presence |-> 0], wire, 1, Len(wire))
       IN  /\ rx' = r.s
           /\ rxLog' = r.log
           /\ rxPresence' = r.presence
    /\ wire' = <<>>
    /\ UNCHANGED <<txSeed, TXDisableScrambler, txLog, garbage, lastWrite>>

PhyNext ==
    \/ \E f \in TxInputs : TXSendPacket(f[1], f[2], f[3]) /\ UNCHANGED notPhy
    \/ \E b \in GarbageBytes : LineGarbage(b) /\ UNCHANGED notPhy
    \/ Run /\ UNCHANGED notPhy

InitPhy == PhyInit /\ CmdInit /\ CtlNew(0) /\ AllocInit /\ RestInit

SpecPhy == InitPhy /\ [][PhyNext]_vars

----------------------------------------------------------------------------
(* Claims about the PHY, checked under SpecPhy *)

\* The last TXSendPacket call.
LastTx == txLog[Len(txLog)]

\* The last write to the line was a frame, and PHY.Run has read all of it.
FrameFed == lastWrite = "tx" /\ wire = <<>>

\* RXHandlePacket was invoked exactly once since the call t, with t's arguments.
DeliveredOnce(t) ==
    /\ Len(rxLog) = t.base + 1
    /\ rxLog[Len(rxLog)] = [src |-> t.src, dst |-> t.dst, payload |-> t.payload]

\* The receiver was in IDLE and not escaped when t's frame was written.
StartedIdle(t) == t.rxState = 0 /\ ~t.isEscaped

\* The source address is not the escape byte and LEN = len(payload)+1 fits a byte.
Encodable(t) == t.src # EscapeByte /\ Len(t.payload) + 1 <= 255

\* C1 as stated: for every src, dst and payload and both scrambler settings, the
\* bytes TXSendPacket writes, fed to a receiver in IDLE and not escaped, invoke
\* RXHandlePacket exactly once with the arguments sent.
C1_RoundTripAll ==
    (FrameFed /\ StartedIdle(LastTx)) => DeliveredOnce(LastTx)

\* C1 amended: the same, for every src other than 0xAA and every payload of at
\* most 254 bytes.
C1_RoundTrip ==
    (FrameFed /\ StartedIdle(LastTx) /\ Encodable(LastTx)) => DeliveredOnce(LastTx)

C1_Witness ==
    /\ FrameFed /\ StartedIdle(LastTx) /\ Encodable(LastTx)
    /\ TXDisableScrambler
    /\ LastTx.dst = EscapeByte
    /\ LastTx.payload = <<EscapeByte>>
    /\ DeliveredOnce(LastTx)

FrameFields(t) ==
    LET body == TXBody(t.src, t.dst, t.payload, t.seed, TXDisableScrambler)
        sum  == SumBytes(body) % 65536
    IN  body \o <<sum % 256, sum \div 256>>

\* The number of bytes of s[lo..hi] that equal 0xAA.
RECURSIVE EscapeCount(_, _, _)
EscapeCount(s, lo, hi) ==
    IF lo > hi THEN 0
    ELSE IF lo = hi THEN (IF s[lo] = EscapeByte THEN 1 ELSE 0)
    ELSE LET mid == (lo + hi) \div 2
         IN  EscapeCount(s, lo, mid) + EscapeCount(s, mid + 1, hi)

\* Where field i starts in the bytes written: after the start byte, the
\* fields before it, and one more byte for each of those that is 0xAA.
FieldOffset(fields, i) == 1 + (i - 1) + EscapeCount(fields, 1, i - 1)

\* Field i of the fields went to the port, in frame, as two consecutive 0xAA
\* bytes.
WrittenDoubled(fields, frame, i) ==
    LET at == FieldOffset(fields, i)
    IN  /\ Len(frame) >= at + 2
        /\ frame[at + 1] = EscapeByte
        /\ frame[at + 2] = EscapeByte

\* The bytes the receive state machine dispatches out of msg[lo..hi], each
\* with the state it is dispatched in (1 for the byte after a frame start).
RECURSIVE RxDispatched(_, _, _, _)
RxDispatched(acc, msg, lo, hi) ==
    IF lo > hi \/ Len(acc.seen) < 0 THEN acc
    ELSE IF lo = hi
    THEN LET m == msg[lo]
         IN  [s    |-> RxStep(acc.s, m).s,
              seen |-> IF ~acc.s.isEscaped /\ m = EscapeByte THEN acc.seen
                       ELSE Append(acc.seen, <<RxResyncState(acc.s, m), m>>)]
    ELSE LET mid == (lo + hi) \div 2
         IN  RxDispatched(RxDispatched(acc, msg, lo, mid), msg, mid + 1, hi)

\* The state SRC, DST, LEN or BODY in which field i of a frame belongs.
FieldState(i) == IF i < 4 THEN i ELSE 4

\* What a receiver that is idle dispatches out of t's frame.
FrameSeen(t) ==
    RxDispatched([s |-> RxInit, seen |-> <<>>], t.frame, 1, Len(t.frame)).seen

\* The receiver took field i as the one byte 0xAA in the state of that field.
ReceivedLiteral(seen, i) ==
    Len(seen) >= i /\ seen[i] = <<FieldState(i), EscapeByte>>

\* The positions that hold 0xAA.
EscapePositions(fields) == {i \in 1..Len(fields) : fields[i] = EscapeByte}

\* C18 as stated: a byte equal to 0xAA in any of the positions SRC, DST, LEN,
\* SEED, payload and checksum is written as two 0xAA bytes and the receiver
\* takes the pair as one literal 0xAA in the same position.
C18_StuffedEverywhere ==
    (FrameFed /\ StartedIdle(LastTx)) =>
        LET fields == FrameFields(LastTx)
            seen   == FrameSeen(LastTx)
        IN  \A i \in EscapePositions(fields) :
                /\ WrittenDoubled(fields, LastTx.frame, i)
                /\ ReceivedLiteral(seen, i)

\* C18 amended: it is written as two 0xAA bytes in all six positions, and
\* when SRC is not 0xAA and the payload has at most 254 bytes the receiver
\* takes the pair as one literal 0xAA in the same position.
C18_Stuffed ==
    (FrameFed /\ StartedIdle(LastTx)) =>
        LET fields == FrameFields(LastTx)
            seen   == FrameSeen(LastTx)
        IN  \A i \in EscapePositions(fields) :
                /\ WrittenDoubled(fields, LastTx.frame, i)
                /\ Encodable(LastTx) => ReceivedLiteral(seen, i)

\* A delivered frame with 0xAA as LEN and as SEED.
C18_Witness ==
    /\ FrameFed /\ StartedIdle(LastTx) /\ Encodable(LastTx)
    /\ {3, 4} \subseteq EscapePositions(FrameFields(LastTx))
    /\ DeliveredOnce(LastTx)

----------------------------------------------------------------------------
(* Claims about the command slot, checked under SpecCmd *)

\* The caller is between taking the slot (Get) and giving it back (Put).
HoldsSlot(p) == cmdPc[p] \in {"held", "send", "write", "wait", "woken", "release"}

\* C3: at most one caller at a time is between acquiring the command slot and
\* releasing it, TXSendPacket is only called by the caller that holds the slot,
\* two TXSendPacket calls never overlap, and a caller that has given the slot
\* back has had its response, its timeout or a write error.
C3_SlotMutex ==
    /\ Cardinality({p \in Callers : HoldsSlot(p)}) <= 1
    /\ \A p \in txWriters : HoldsSlot(p) /\ slotHolder = p
    /\ Cardinality(txWriters) <= 1
    /\ \A p \in Callers :
          cmdPc[p] = "check" => cmdHist[p].outcome \in {"response", "timeout", "writeerror"}

C3_Witness ==
    \E p, q \in Callers :
        /\ p # q
        /\ txWriters = {p}
        /\ cmdPc[q] = "get"
        /\ cmdHist[q].outcome = "none"

\* C4: a command returns a response only if it is the payload of a valid packet
\* whose destination is 1 and whose source is the command's expected-response
\* address; a packet with another destination or source, or one that arrives
\* while the slot is not active, changes neither the response buffer nor the
\* pending post.
C4_ResponseMatches ==
    \A p \in Callers :
        (cmdPc[p] = "done" /\ cmdRet[p].resp # Nil)
            => /\ cmdRet[p].resp = PayloadOf(cmdArgs[p].addrResponse, ControllerAddress)
               /\ cmdHist[p].matched

C4_OthersIgnored ==
    \/ UNCHANGED <<slotData, slotPosted>>
    \/ \A pkt \in Packets :
            rxHandlePacket(pkt)
                => /\ pkt.dst = ControllerAddress
                   /\ pkt.src = slotData.addrResponse
                   /\ slotActive

C4_OnlyMatchingPacket == []C4_ResponseMatches /\ [][C4_OthersIgnored]_vars

C4_Witness ==
    \E p \in Callers :
        /\ cmdPc[p] = "done"
        /\ cmdArgs[p].addrResponse = 2
        /\ cmdRet[p] = [resp |-> PayloadOf(2, ControllerAddress), err |-> "nil"]

\* C5: commandExecTimeout returns (nil, nil) when no matching response arrived
\* before the timeout and (nil, non-nil error) when the write of the frame
\* failed: a write failure is always surfaced as an error, and a timeout is
\* never reported as an error.
C5_TimeoutVsError ==
    \A p \in Callers :
        cmdPc[p] = "done"
            => /\ cmdHist[p].writeFailed
                    => (cmdRet[p].resp = Nil /\ cmdRet[p].err # "nil")
               /\ cmdHist[p].outcome = "timeout"
                    => cmdRet[p] = [resp |-> Nil, err |-> "nil"]
               /\ cmdRet[p].err # "nil" => cmdHist[p].writeFailed


\* C23: the response a command returns is the addressed device's reply to
\* that command, never a packet that was received before the command's frame
\* was written to the port.
C23_ReplyToThisCommand ==
    \A p \in Callers :
        (cmdPc[p] = "done" /\ cmdHist[p].outcome = "response" /\ cmdRet[p].err = "nil"
            /\ cmdRet[p].resp # Nil)
        => ~capturedEarly[p]

----------------------------------------------------------------------------
(* Claims about the polling loop, checked under SpecCtl *)

RecordIds == 1..MaxRecords

ReservedAddresses == {BroadcastAddress, ControllerAddress, EscapeByte}

\* The range over c.devices has visited every entry: the iteration is at its end.
IterationEnd == ctlPc = "poll" /\ todo = {}

\* C6: a record that Access reported inactive is marked closed at once; the
\* next polling iteration calls Disconnected for it, clears its address in the
\* bitmap and deletes its entry (no closed record outlives the iteration after
\* the one that closed it); Disconnected is called at most once per record and
\* neither Access nor Disconnected is called on a record after its Disconnected.
C6_DisconnectedOnce ==
    \A id \in RecordIds :
        LET h == ctlHist[id]
        IN  /\ h.age # "late"
            /\ h.disc <= 1
            /\ ~h.stray
            /\ h.age \in {"closed", "due"}
                  => \E e \in devices : e.id = id /\ e.closed /\ h.disc = 0
            /\ h.age = "reaped"
                  => /\ h.disc = 1
                     /\ \A e \in devices : e.id # id
                     /\ AddressBitSet(addressUsed, h.address)
                           => \E e \in devices : e.address = h.address

C6_Witness ==
    /\ ctlPc = "detect"
    /\ nextId = 2
    /\ lostSerials = {SerialA}
    /\ ctlHist[1].age = "reaped"
    /\ devices = {}

\* C7: when detectAndConfigure has handled a PING-ALL answer from a serial
\* whose record Access had closed before, and the assignment was acknowledged,
\* an open record for that serial is in the device table.
C7_ReenumeratedOpen ==
    (ctlPc = "poll" /\ lastEnum.acked = "ok" /\ lastEnum.lost)
        => \E e \in devices : e.key = lastEnum.serial /\ ~e.closed

\* C8: the table holds at most one record per serial, every record is stored
\* under its own serial, the factory is called exactly when the answering
\* serial is not in the table, an answer from a known serial is assigned the
\* address of the record the table already holds, and the first record of a
\* controller has address 2.
C8_OneRecordPerSerial ==
    /\ \A e \in devices : e.key = e.serial
    /\ \A e1, e2 \in devices : e1.key = e2.key => e1 = e2
    /\ lastEnum.serial # Nil => (lastEnum.factory <=> ~lastEnum.known)
    /\ lastEnum.known
          => /\ lastEnum.id = lastEnum.knownId
             /\ lastEnum.address = lastEnum.knownAddress
             /\ \E e \in devices : /\ e.id = lastEnum.knownId
                                   /\ e.key = lastEnum.serial
                                   /\ e.address = lastEnum.address
    /\ ctlHist[1].age # "none" => ctlHist[1].address = 2

C8_Witness ==
    /\ ctlPc = "poll"
    /\ lastEnum.known
    /\ lastEnum.acked = "ok"
    /\ Cardinality(devices) = 2

\* C9: at the start and at the end of every polling iteration the addresses
\* marked used are 0x00, 0x01, 0xAA and the addresses of the records in the
\* table, closed ones included, and no two records have the same address.
C9_BitmapMatchesTable ==
    (ctlPc = "detect" \/ IterationEnd)
        => /\ AddressesUsed(addressUsed) = ReservedAddresses \cup {e.address : e \in devices}
           /\ \A e1, e2 \in devices : e1.address = e2.address => e1 = e2

C9_Witness ==
    /\ ctlPc = "detect"
    /\ Cardinality(devices) = 2
    /\ \E e \in devices : e.closed
    /\ \E id \in RecordIds : ctlHist[id].age = "reaped"

----------------------------------------------------------------------------
(* Claims about the address allocator, checked under SpecAlloc *)

\* C10: a successful addressFindFree returns the lowest address of 0..253 whose
\* bit was clear and sets that bit and no other; it is not 0x00, 0x01 or 0xAA,
\* it is higher than the address of the allocation just before it when no free
\* came between, and it was not held; a failed one found every bit of 0..253
\* set and leaves the bitmap as it was.
C10_LowestFreeAddress ==
    /\ allocLast.op = "alloc"
          => LET a == allocLast.addr
             IN  /\ a \in 0..(AddressScanLimit - 1)
                 /\ ~AddressBitSet(allocLast.before, a)
                 /\ \A j \in 0..(a - 1) : AddressBitSet(allocLast.before, j)
                 /\ AddressesUsed(addressUsed) = AddressesUsed(allocLast.before) \cup {a}
                 /\ a \notin ReservedAddresses
                 /\ allocLast.prev >= 0 => a > allocLast.prev
                 /\ ~allocLast.wasHeld
    /\ allocLast.op = "fail"
          => /\ addressUsed = allocLast.before
             /\ \A i \in 0..(AddressScanLimit - 1) : AddressBitSet(allocLast.before, i)
    /\ allocHeld \cap ReservedAddresses = {}

C10_Witness ==
    /\ allocLast.op = "alloc"
    /\ allocLast.addr = EscapeByte + 1
    /\ allocLast.prev = EscapeByte - 1
    /\ allocFrees > 0

----------------------------------------------------------------------------
(* Claims about a BusDevice handle, checked under SpecDev *)

\* C11: a CommandExecTimeout on a handle that is closed returns ErrorClosed
\* and writes nothing, and no frame is written for a handle that is closed at
\* the time of the write, however the call interleaves with the polling loop
\* closing and reaping the device.
C11_ClosedHandleSilent ==
    /\ devCall.closedAtCall => (devCall.ret = "ErrorClosed" /\ ~devCall.wrote)
    /\ devCall.wrote => ~devCall.closedAtWrite

----------------------------------------------------------------------------
(* Claims about Run returning, checked under SpecRun *)

\* C12: once the port has been closed (by Close, by a failed read or by an
\* upward callback's error), Controller.Run eventually returns.
C12_RunReturns == portClosed ~> (ctlPc = "returned")

----------------------------------------------------------------------------
(* Claims about the enumeration modes, checked under SpecCtl *)

\* A PING-ALL has been sent in this call of detectAndConfigure.
PingSent == ctlPc \in {"ping", "assign"}

AdaptiveDetectStep == devicesNumber < 0 /\ ctlPc = "detect" /\ ctlPc' # "detect"

\* The table is at the non-zero historical maximum as the call starts.
AtHistoricalMax == Cardinality(devices) >= devicesMax /\ devicesMax > 0

\* C14 as stated: in adaptive mode a call that finds the table below the
\* historical maximum sends PING-ALL; one that finds it at the non-zero
\* maximum sends PING-ALL only when the deadline has passed and it is the
\* tenth such call; a presence byte puts the deadline ahead.
C14_AdaptiveAsStated ==
    [][/\ AdaptiveDetectStep
           => /\ ~AtHistoricalMax => ctlPc' = "ping"
              /\ (AtHistoricalMax /\ ctlPc' = "ping")
                    => (scanDue /\ scanCount + 1 = ScanPeriod)
       /\ (scanDue /\ ~scanDue') => (devicesNumber < 0 /\ UNCHANGED ctlPc)]_vars

\* C14 as amended: in adaptive mode a call sends PING-ALL when the table is
\* below the historical maximum, when that maximum is zero, or when the
\* deadline has not passed; with the table at the non-zero maximum and the
\* deadline passed the call counts, and sends PING-ALL exactly when it is the
\* tenth counted call, which restarts the count; other calls leave the count
\* alone; the deadline is put ahead only by Run starting and, in adaptive
\* mode, by a presence byte.
C14_AdaptiveScan ==
    [][/\ AdaptiveDetectStep
           => /\ (~AtHistoricalMax \/ ~scanDue)
                    => (ctlPc' = "ping" /\ scanCount' = scanCount)
              /\ (AtHistoricalMax /\ scanDue)
                    => /\ ctlPc' = "ping" <=> scanCount + 1 = ScanPeriod
                       /\ ctlPc' = "poll" <=> scanCount + 1 < ScanPeriod
                       /\ scanCount' = (scanCount + 1) % ScanPeriod
       /\ (scanDue /\ ~scanDue')
             => (ctlPc = "new" \/ (devicesNumber < 0 /\ UNCHANGED ctlPc))
       /\ scanCount \in 0..(ScanPeriod - 1)]_vars

\* Nine calls have been counted and skipped: the next one is the tenth.
C14_Witness ==
    /\ devicesNumber < 0
    /\ ctlPc = "detect"
    /\ scanCount = ScanPeriod - 1
    /\ scanDue
    /\ devicesMax > 0
    /\ Cardinality(devices) = devicesMax

----------------------------------------------------------------------------
(* Claims about the battery driver.                                        *)

\* The last call of the driver was an Access and it has returned.
AccessReturned == batPc = "idle" /\ batCall.op = "Access"

\* The answer to the last Access opens with another byte than the reply
\* opcode of the record asked for.
WrongOpcode ==
    /\ batCall.reply.kind = "data"
    /\ Len(batCall.reply.bytes) > 0
    /\ batCall.reply.bytes[1] # ExpectedReply(batCall.cursor)

\* The answer to the last Access has the reply opcode of the record asked
\* for and is not what the cache held.
FreshRecord ==
    /\ batCall.reply.kind = "data"
    /\ Len(batCall.reply.bytes) > 0
    /\ batCall.reply.bytes[1] = ExpectedReply(batCall.cursor)
    /\ batCall.reply.bytes # batCall.cacheBefore

\* C15: when a battery read gets an answer whose first byte is not the
\* expected reply opcode, the cached record and the snapshot stay as they
\* were and Access returns active = true.
C15_WrongOpcodeIgnored ==
    (AccessReturned /\ WrongOpcode) =>
        /\ batCache[CacheName(batCall.cursor)] = batCall.cacheBefore
        /\ batData = batCall.dataBefore
        /\ batCall.active

\* C16: for every cursor, when the answer has the expected opcode and differs
\* from the cached record, the cache becomes the answer, the decoder of the
\* record runs, and if the decoder reports a change the driver attempts a
\* send on the update channel.
C16_ChangeSignalled ==
    (AccessReturned /\ FreshRecord) =>
        /\ batCache[CacheName(batCall.cursor)] = batCall.reply.bytes
        /\ batCall.ran
        /\ batCall.changed => batCall.sent

\* C17: signalling an update never blocks.  The update channel never holds
\* more than one notification, and a driver that has come to signalUpdate
\* returns from Access or Disconnected, whether or not the consumer reads.
C17_SignalNeverBlocks ==
    /\ [](updateChan <= 1)
    /\ (batPc = "signal") ~> (batPc = "idle")

\* Disconnected has returned after finding the channel full and dropping its
\* notification, the one of an earlier Access of cursor 0 still pending.
C17_Witness ==
    /\ batPc = "idle"
    /\ batCall.op = "Disconnected"
    /\ batCall.dropped
    /\ batAccesses >= 5
    /\ updateChan = 1


\* The request opcodes of the cursors 0 to 4.
RequestOpcodes == {Request(c, 0)[1] : c \in Cursors}

\* Every five requests in a row are the five different read requests.
EveryWindowComplete ==
    \A k \in 1..(Len(batRequests) - 4) :
        {batRequests[k + d][1] : d \in 0..4} = RequestOpcodes

\* A returned Access of cursor 0 has gone through signalUpdate.
CursorZeroSignals == (AccessReturned /\ batCall.cursor = 0) => batCall.sent

\* C21 as stated: each Access issues one request, the first that of cursor 0
\* and the next ones in the order 0, 1, 2, 3, 4, 0, ..., every five calls in
\* a row issue each request once, and every call of cursor 0 signals.
C21_CycleFromZero ==
    /\ Len(batRequests) = batAccesses
    /\ \A k \in 1..Len(batRequests) :
           batRequests[k][1] = Request((k - 1) % 5, 0)[1]
    /\ EveryWindowComplete
    /\ CursorZeroSignals

\* C21 amended: the same with the first request that of cursor 1, the order
\* being 1, 2, 3, 4, 0, 1, ...
C21_CycleFromOne ==
    /\ Len(batRequests) = batAccesses
    /\ \A k \in 1..Len(batRequests) :
           batRequests[k][1] = Request(k % 5, 0)[1]
    /\ EveryWindowComplete
    /\ CursorZeroSignals

\* The tenth call, the second of cursor 0, has got the record the cache held
\* already, and has sent its notification.
C21_Witness ==
    /\ batAccesses = 10
    /\ AccessReturned
    /\ batCall.cursor = 0
    /\ batCall.reply = ReplyData(batCall.cacheBefore)
    /\ batCall.active
    /\ batCall.sent /\ ~batCall.dropped

\* The last call is an Access of cursor 0.
CursorZeroCall == batCall.op = "Access" /\ batCall.cursor = 0

\* The requests of cursor 0 made so far, by their place among the requests.
CursorZeroRequests == {k \in 1..Len(batRequests) : batRequests[k][1] = OpState}

\* C22 as stated: the first request of cursor 0 is made before any factory
\* data is there, so that its cell count byte is 0xFF.
C22_FirstRequestBlind ==
    \A k \in CursorZeroRequests :
        (\A j \in CursorZeroRequests : k <= j) =>
            batRequests[k][3] = 255

\* C22 amended: every request of cursor 0, the first among them, follows a
\* read of the factory record that left the device active, and its cell
\* count byte is the cell count of the factory record held, less one, mod 256.
C22_CellCountFromFactory ==
    CursorZeroCall =>
        LET k == Len(batRequests)
        IN  /\ k >= 5
            /\ batRequests[k - 1][1] = OpFactory
            /\ Len(batCache["factoryInfo"]) >= FactoryMinLen
            /\ batRequests[k] = <<OpState, 0, (batCache["factoryInfo"][24] + 255) % 256>>

\* Two requests of cursor 0: the first after a factory record of two cells,
\* the second after one of no cells.
C22_Witness ==
    /\ batAccesses = 10
    /\ CursorZeroCall
    /\ batRequests[5] = <<OpState, 0, 1>>
    /\ batRequests[10] = <<OpState, 0, 255>>

\* The record rec of cursor c is too short for its decoder.
TooShort(c, rec) ==
    CASE c = 0 -> \/ Len(rec) < StateMinLen
                  \/ rec[2] = 0 /\ Len(rec) < 3 + 1 + 2 * (rec[3] + 1)
      [] c = 1 -> Len(rec) < CycleMinLen
      [] c = 2 -> Len(rec) < UserMinLen
      [] c = 3 -> Len(rec) < SerialMinLen
      [] OTHER -> Len(rec) < FactoryMinLen

\* C24: a read whose answer has the expected opcode but is too short for its
\* decoder leaves the snapshot as it was, and Access returns active = true.
C24_ShortRecordHarmless ==
    (AccessReturned /\ FreshRecord /\ TooShort(batCall.cursor, batCall.reply.bytes)) =>
        /\ batData = batCall.dataBefore
        /\ batCall.active

----------------------------------------------------------------------------
(* Claims about the receiver fed any bytes, and about scramble.            *)

LastFrame == fedFrames[Len(fedFrames)]

\* The two trailing bytes of the frame f, read little-endian, equal the sum
\* of its SRC, DST, LEN, SEED and payload bytes mod 65536.
SumMatches(f) ==
    LET n == Len(f.body)
    IN  f.body[n - 1] + 256 * f.body[n]
          = (f.src + f.dst + f.len + SumBytes(SubSeq(f.body, 1, n - 2))) % 65536

\* C19: for every byte sequence fed to the receiver, RXHandlePacket is
\* invoked only for a frame whose two trailing bytes equal the sum of its
\* SRC, DST, LEN, SEED and payload bytes; a frame whose checksum does not
\* match is dropped without a callback and the receiver is back in IDLE.
C19_ChecksumGuards ==
    /\ Len(rxLog) = Cardinality({k \in 1..Len(fedFrames) : fedFrames[k].ev = "packet"})
    /\ \A k \in 1..Len(fedFrames) :
           /\ fedFrames[k].ev = "packet" => SumMatches(fedFrames[k])
           /\ ~SumMatches(fedFrames[k]) =>
                  fedFrames[k].ev = "none" /\ fedFrames[k].rxState = 0

\* A frame whose checksum is off in its high byte only has been dropped.
C19_Witness ==
    /\ fedFrames # <<>>
    /\ ~SumMatches(LastFrame)
    /\ LET n == Len(LastFrame.body)
       IN  LastFrame.body[n - 1]
             = (LastFrame.src + LastFrame.dst + LastFrame.len
                  + SumBytes(SubSeq(LastFrame.body, 1, n - 2))) % 256
    /\ rxLog = <<>>
    /\ rx.rxState = 0

\* The keystream as the claim gives it: k[0] = s + 136 and
\* k[i] = (k[i-1] + s) XOR s, all mod 256.
RECURSIVE StatedKey(_, _)
StatedKey(s, i) ==
    IF i = 0 THEN (s + 136) % 256
    ELSE Xor8((StatedKey(s, i - 1) + s) % 256, s)

\* C20: for every seed s and payload p, scramble(s, scramble(s, p)) = p, the
\* keystream being k[0] = s + 136, k[i] = (k[i-1] + s) XOR s mod 256, which
\* for s = 0 is 136 throughout.
C20_Involution ==
    /\ scrCalls = 1 =>
           /\ Len(scrOut) = Len(scrIn)
           /\ \A i \in 1..Len(scrIn) :
                  scrOut[i] = Xor8(scrIn[i], StatedKey(scrSeed, i - 1))
           /\ scrSeed = 0 => \A i \in 1..Len(scrIn) : scrOut[i] = Xor8(scrIn[i], 136)
    /\ scrCalls = 2 => scrOut = scrIn

\* Two calls with a seed that changes every byte of a payload of three bytes.
C20_Witness ==
    /\ scrCalls = 2
    /\ Len(scrIn) >= 3
    /\ scrOut = scrIn
    /\ \A i \in 1..Len(scrIn) : scramble(scrSeed, scrIn)[i] # scrIn[i]
    /\ scrSeed = EscapeByte

====
